---- MODULE Spec2Model ----
(***************************************************************************)
(* Model of the meat-quality monitoring core: the fusion engine            *)
(* (mock_data.get_fusion_decision, the fusion analysis section of app.py,  *)
(* map_quality_level, determine_gas_status) and the message handling of    *)
(* the three bus clients (MQTTClient, SimpleMQTTClient, MQTTSubscriber)    *)
(* on top of the sensor_readings table of DatabaseManager.                 *)
(***************************************************************************)
EXTENDS Integers, Sequences, FiniteSets, TLC

VARIABLES
    call,             \* the last evaluation of the fusion engine: inputs and results
    impl,             \* which bus client class this process instantiated
    connected,        \* self.connected of the bus client
    last_message,     \* SimpleMQTTClient.last_message
    db_ok,            \* whether the sqlite store currently accepts writes
    sensor_readings,  \* rows of table sensor_readings, in insertion order
    seq_sensor,       \* AUTOINCREMENT counter of sensor_readings
    nmsgs,            \* number of message callbacks that have run
    last,             \* the message handed to the most recent callback
    escaped,          \* an exception left the most recent message callback
    insert_errors,    \* the callbacks (by number) whose insert raised
    visual_predictions, \* rows of table visual_predictions
    seq_visual,       \* AUTOINCREMENT counter of visual_predictions
    fusion_decisions, \* rows of table fusion_decisions
    seq_fusion,       \* AUTOINCREMENT counter of fusion_decisions
    now,              \* the system clock: the UTC time, in half days
    tz,               \* how far the host's local time is ahead of UTC
    link,             \* the paho client's connection: down, sent, refused, up
    loop_started,     \* self._loop_started
    calls,            \* number of calls made to the client's methods
    ret,              \* what the most recent method call returned
    loop_running,     \* network events are being processed: the paho loop
                      \* thread is alive (loop_start), or run() is in its
                      \* client.loop() cycle
    keep_running,     \* self.keep_running
    started,          \* self._started
    threads,          \* the background threads made by start(): position in
                      \* _run, and whether the reconnect delay was waited
                      \* since the thread's last connection attempt; in the
                      \* standalone subscriber, the main thread inside run()
    ops,              \* the lifecycle calls made so far: start, stop,
                      \* disconnect
    lock,             \* the process holding the write lock of the store file
    txn,              \* per process: the write transaction it has open
    assigned,         \* per table: the identifiers inserts have returned
    simulator         \* the fields of mock_data._simulator

busVars == <<impl, connected, last_message, db_ok, sensor_readings,
             seq_sensor, nmsgs, last, escaped>>

\* the two tables no bus client writes, the clock and the host's time zone
tableVars == <<visual_predictions, seq_visual, fusion_decisions, seq_fusion,
               now, tz>>

\* the transport under the client and the calls made by its user
connVars == <<link, loop_started, calls, ret>>

\* the background loop of MQTTClient and its lifecycle
lifeVars == <<keep_running, started, threads, ops>>

\* the write transactions on the store file
txnVars == <<lock, txn, assigned>>

\* the state outside the bus client proper
extVars == <<tableVars, connVars, loop_running, lifeVars, txnVars,
             simulator>>

\* the fusion engine, the messages, the store and the simulator
dataVars == <<call, last_message, db_ok, sensor_readings, seq_sensor, nmsgs,
              last, escaped, insert_errors, tableVars, txnVars, simulator>>

vars == <<call, busVars, insert_errors, extVars>>

(***************************************************************************)
(* Python helpers                                                          *)
(***************************************************************************)

\* dict.get(key, default)
Get(d, k, default) == IF k \in DOMAIN d THEN d[k] ELSE default

(***************************************************************************)
(* config.py                                                               *)
(***************************************************************************)

H2S_FRESH_THRESHOLD == 10
H2S_WARNING_THRESHOLD == 50
H2S_CRITICAL_THRESHOLD == 100
NH3_FRESH_THRESHOLD == 25
NH3_WARNING_THRESHOLD == 100
NH3_CRITICAL_THRESHOLD == 200
CO2_FRESH_THRESHOLD == 400
CO2_WARNING_THRESHOLD == 800
CO2_CRITICAL_THRESHOLD == 1200

MQTT_TOPIC == "meat-quality/data"
MQTT_STATUS_TOPIC == "meat-quality/status"
MQTT_LWT_TOPIC == "meat-quality/lwt"

QUALITY_LEVEL_MAP ==
    [q \in {"EXCELLENT", "GOOD", "FAIR", "POOR", "SPOILED"} |->
        CASE q = "EXCELLENT" -> "SAFE"
          [] q = "GOOD" -> "SAFE"
          [] q = "FAIR" -> "WARNING"
          [] q = "POOR" -> "WARNING"
          [] q = "SPOILED" -> "SPOILED"]

(***************************************************************************)
(* mock_data.get_fusion_decision                                           *)
(***************************************************************************)

\* thresholds local to get_fusion_decision
H2S_WARNING == 10
H2S_CRITICAL == 50
METHANE_WARNING == 25
METHANE_CRITICAL == 100

\* mutant: the critical comparison is strict
get_fusion_decision_strict(visual_result, gas_readings) ==
    LET h2s == Get(gas_readings, "h2s_ppm", 0)
        methane == Get(gas_readings, "methane_ppm", 0)
        gas_critical == h2s > H2S_CRITICAL \/ methane > METHANE_CRITICAL
        gas_warning == h2s >= H2S_WARNING \/ methane >= METHANE_WARNING
        gas_low == ~gas_warning
    IN  IF visual_result = "Rotten" \/ gas_critical THEN "CRITICAL"
        ELSE IF visual_result = "Fresh" /\ gas_low THEN "SAFE"
        ELSE IF visual_result = "Fresh" /\ gas_warning THEN "WARNING"
        ELSE IF visual_result = "Rotten" /\ gas_low THEN "SPOILED"
        ELSE "WARNING"

\* mutant: gas_low looks at H2S only
get_fusion_decision_h2sonly(visual_result, gas_readings) ==
    LET h2s == Get(gas_readings, "h2s_ppm", 0)
        methane == Get(gas_readings, "methane_ppm", 0)
        gas_critical == h2s >= H2S_CRITICAL \/ methane >= METHANE_CRITICAL
        gas_warning == h2s >= H2S_WARNING
        gas_low == ~gas_warning
    IN  IF visual_result = "Rotten" \/ gas_critical THEN "CRITICAL"
        ELSE IF visual_result = "Fresh" /\ gas_low THEN "SAFE"
        ELSE IF visual_result = "Fresh" /\ gas_warning THEN "WARNING"
        ELSE IF visual_result = "Rotten" /\ gas_low THEN "SPOILED"
        ELSE "WARNING"

\* mutant: the default branch is optimistic when the gas is low
get_fusion_decision_default(visual_result, gas_readings) ==
    LET h2s == Get(gas_readings, "h2s_ppm", 0)
        methane == Get(gas_readings, "methane_ppm", 0)
        gas_critical == h2s >= H2S_CRITICAL \/ methane >= METHANE_CRITICAL
        gas_warning == h2s >= H2S_WARNING \/ methane >= METHANE_WARNING
        gas_low == ~gas_warning
    IN  IF visual_result = "Rotten" \/ gas_critical THEN "CRITICAL"
        ELSE IF visual_result = "Fresh" /\ gas_low THEN "SAFE"
        ELSE IF visual_result = "Fresh" /\ gas_warning THEN "WARNING"
        ELSE IF visual_result = "Rotten" /\ gas_low THEN "SPOILED"
        ELSE IF gas_low THEN "SAFE"
        ELSE "WARNING"

\* mutant: the Rotten-with-low-gas branch is tested before the critical one
get_fusion_decision_spoiled(visual_result, gas_readings) ==
    LET h2s == Get(gas_readings, "h2s_ppm", 0)
        methane == Get(gas_readings, "methane_ppm", 0)
        gas_critical == h2s >= H2S_CRITICAL \/ methane >= METHANE_CRITICAL
        gas_warning == h2s >= H2S_WARNING \/ methane >= METHANE_WARNING
        gas_low == ~gas_warning
    IN  IF visual_result = "Rotten" /\ gas_low THEN "SPOILED"
        ELSE IF visual_result = "Rotten" \/ gas_critical THEN "CRITICAL"
        ELSE IF visual_result = "Fresh" /\ gas_low THEN "SAFE"
        ELSE IF visual_result = "Fresh" /\ gas_warning THEN "WARNING"
        ELSE "WARNING"

\* the status component of the returned (status, color) pair
get_fusion_decision(visual_result, gas_readings) ==
    LET h2s == Get(gas_readings, "h2s_ppm", 0)
        methane == Get(gas_readings, "methane_ppm", 0)
        gas_critical == h2s >= H2S_CRITICAL \/ methane >= METHANE_CRITICAL
        gas_warning == h2s >= H2S_WARNING \/ methane >= METHANE_WARNING
        gas_low == ~gas_warning
    IN  IF visual_result = "Rotten" \/ gas_critical THEN "CRITICAL"
        ELSE IF visual_result = "Fresh" /\ gas_low THEN "SAFE"
        ELSE IF visual_result = "Fresh" /\ gas_warning THEN "WARNING"
        ELSE IF visual_result = "Rotten" /\ gas_low THEN "SPOILED"
        ELSE "WARNING"

(***************************************************************************)
(* mqtt_client_simple.map_quality_level, determine_gas_status              *)
(***************************************************************************)

\* mutant: an unrecognized label is taken as healthy
map_quality_level_safe(esp_quality) ==
    Get(QUALITY_LEVEL_MAP, esp_quality, "SAFE")

map_quality_level(esp_quality) ==
    Get(QUALITY_LEVEL_MAP, esp_quality, "WARNING")

determine_gas_status(h2s, nh3, co2) ==
    IF h2s >= H2S_CRITICAL_THRESHOLD \/ nh3 >= NH3_CRITICAL_THRESHOLD
          \/ co2 >= CO2_CRITICAL_THRESHOLD
    THEN "CRITICAL"
    ELSE IF h2s >= H2S_WARNING_THRESHOLD \/ nh3 >= NH3_WARNING_THRESHOLD
          \/ co2 >= CO2_WARNING_THRESHOLD
    THEN "HIGH"
    ELSE "LOW"

(***************************************************************************)
(* app.py, fusion analysis section                                         *)
(***************************************************************************)

\* mutant: the device label simply replaces the fused verdict
Reconcile_replace(fusion_status, esp_quality) == esp_quality

\* "use the more conservative status" (app.py, the if/elif chain)
Reconcile(fusion_status, esp_quality) ==
    IF esp_quality = "CRITICAL" \/ fusion_status = "CRITICAL" THEN "CRITICAL"
    ELSE IF esp_quality = "SPOILED" \/ fusion_status = "SPOILED" THEN "SPOILED"
    ELSE IF esp_quality = "WARNING" \/ fusion_status = "WARNING" THEN "WARNING"
    ELSE fusion_status

\* mutant: the UNKNOWN label is not excepted
UsesDeviceLabel_anylabel(data_mode, current) ==
    data_mode = "mqtt"

\* whether the device label is taken into account
UsesDeviceLabel(data_mode, current) ==
    data_mode = "mqtt" /\ current.quality_level # "UNKNOWN"

\* the gas_readings dict handed to get_fusion_decision
GasReadingsOf(current) ==
    [k \in {"h2s_ppm", "methane_ppm", "ammonia_ppm"} |->
        CASE k = "h2s_ppm" -> current.h2s_ppm
          [] k = "methane_ppm" -> current.nh3_ppm
          [] k = "ammonia_ppm" -> current.co2_ppm]

\* one run of the section on a pending request: the primary verdict, the
\* final one, and the gas status shown beside it
FusionSection(req) ==
    LET primary == get_fusion_decision(req.visual_status, GasReadingsOf(req.current))
        final == IF UsesDeviceLabel(req.data_mode, req.current)
                 THEN Reconcile(primary, map_quality_level(req.current.quality_level))
                 ELSE primary
    IN  [req EXCEPT !.done = TRUE,
                    !.fusion_primary = primary,
                    !.fusion_status = final,
                    !.gas_status = determine_gas_status(req.current.h2s_ppm,
                                       req.current.nh3_ppm, req.current.co2_ppm)]

(***************************************************************************)
(* Inputs of the fusion engine                                             *)
(***************************************************************************)

\* "None" stands for a missing verdict, "fresh" for an unrecognized one
Visuals == {"Fresh", "Rotten", "Unknown", "fresh", "None"}

H2SValues == {0, 5, H2S_WARNING - 1, H2S_WARNING, 15, H2S_CRITICAL - 1,
              H2S_CRITICAL, 60, H2S_CRITICAL_THRESHOLD - 1,
              H2S_CRITICAL_THRESHOLD}
NH3Values == {0, 15, METHANE_WARNING - 1, METHANE_WARNING,
              METHANE_CRITICAL - 1, METHANE_CRITICAL,
              NH3_CRITICAL_THRESHOLD - 1, NH3_CRITICAL_THRESHOLD}
CO2Values == {0, CO2_FRESH_THRESHOLD - 1, CO2_FRESH_THRESHOLD, 450,
              CO2_WARNING_THRESHOLD - 1, CO2_WARNING_THRESHOLD,
              CO2_CRITICAL_THRESHOLD - 1, CO2_CRITICAL_THRESHOLD}

QualityLabels == {"EXCELLENT", "GOOD", "FAIR", "POOR", "SPOILED", "UNKNOWN",
                  "", "CRITICAL", "good"}

DataModes == {"mqtt", "mock"}

GasKeys == {"h2s_ppm", "methane_ppm", "ammonia_ppm"}

\* gas_readings dicts for a direct call: any subset of the keys may be absent
GasDicts ==
    UNION {[ks -> {0, H2S_WARNING - 1, H2S_WARNING, METHANE_WARNING - 1,
                   METHANE_WARNING, H2S_CRITICAL - 1, H2S_CRITICAL,
                   METHANE_CRITICAL - 1, METHANE_CRITICAL, 2000}] :
           ks \in SUBSET GasKeys}

(***************************************************************************)
(* Fusion engine: the evaluations the model draws, and the actions that    *)
(* carry them out                                                          *)
(***************************************************************************)

Currents ==
    [h2s_ppm : H2SValues, nh3_ppm : NH3Values, co2_ppm : CO2Values,
     quality_level : QualityLabels]

FusionAnalysisRequests ==
    [fn : {"fusion_analysis"}, visual_status : Visuals, current : Currents,
     data_mode : DataModes, done : {FALSE}, fusion_primary : {"pending"},
     fusion_status : {"pending"}, gas_status : {"pending"}]

GetFusionDecisionRequests ==
    [fn : {"get_fusion_decision"}, visual_result : Visuals,
     gas_readings : GasDicts, done : {FALSE}, ret : {"pending"}]

MapQualityLevelRequests ==
    [fn : {"map_quality_level"}, esp_quality : QualityLabels, done : {FALSE},
     ret : {"pending"}]

DetermineGasStatusRequests ==
    [fn : {"determine_gas_status"}, h2s : H2SValues, nh3 : NH3Values,
     co2 : CO2Values, done : {FALSE}, ret : {"pending"}]

\* the fusion analysis section of one script run of the dashboard
FusionAnalysis ==
    /\ call.fn = "fusion_analysis" /\ ~call.done
    /\ call' = FusionSection(call)
    /\ UNCHANGED <<busVars, insert_errors, extVars>>

CallGetFusionDecision ==
    /\ call.fn = "get_fusion_decision" /\ ~call.done
    /\ call' = [call EXCEPT !.done = TRUE,
                            !.ret = get_fusion_decision(call.visual_result,
                                                        call.gas_readings)]
    /\ UNCHANGED <<busVars, insert_errors, extVars>>

CallMapQualityLevel ==
    /\ call.fn = "map_quality_level" /\ ~call.done
    /\ call' = [call EXCEPT !.done = TRUE,
                            !.ret = map_quality_level(call.esp_quality)]
    /\ UNCHANGED <<busVars, insert_errors, extVars>>

CallDetermineGasStatus ==
    /\ call.fn = "determine_gas_status" /\ ~call.done
    /\ call' = [call EXCEPT !.done = TRUE,
                            !.ret = determine_gas_status(call.h2s, call.nh3,
                                                         call.co2)]
    /\ UNCHANGED <<busVars, insert_errors, extVars>>

\* no method of the client has been called
NoReturn == [op |-> "none"]

(***************************************************************************)
(* mock_data.MeatDecaySimulator                                            *)
(*                                                                         *)
(* Concentrations (ppm), decay rates (ppm per second) and the temperature  *)
(* factor are fixed-point numbers with four decimals. Set points are whole *)
(* degrees and whole percents; the temperature and humidity readings have  *)
(* one decimal. Times are seconds, read from the clock `now`.              *)
(***************************************************************************)

\* the value 1.0 in four decimals
Scale == 10000

\* seconds in one step of the clock
SecondsPerTick == 43200

\* time.time()
time_time == now * SecondsPerTick

max(a, b) == IF a >= b THEN a ELSE b
min(a, b) == IF a <= b THEN a ELSE b

\* MeatDecaySimulator(): the fields __init__ sets, constructed at time t;
\* current_temp and current_humidity do not exist before the first update
MeatDecaySimulator(t) ==
    [start_time |-> t,
     time_elapsed |-> 0,
     base_h2s |-> 5000,
     base_methane |-> 20000,
     base_ammonia |-> 10000,
     current_h2s |-> 5000,
     current_methane |-> 20000,
     current_ammonia |-> 10000,
     h2s_decay_rate |-> 50,
     methane_decay_rate |-> 40,
     ammonia_decay_rate |-> 30,
     q10_coefficient |-> 2,
     reference_temp |-> 25]

\* 2.0 ** (k / 10) for k = 0 .. 9
Q10Fractions ==
    <<10000, 10718, 11487, 12311, 13195, 14142, 15157, 16245, 17411, 18661>>

RECURSIVE IntPower(_, _)
IntPower(b, n) == IF n = 0 THEN 1 ELSE b * IntPower(b, n - 1)

\* q10_coefficient ** (delta_temp / 10.0), for the coefficient 2.0
Q10Power(q10_coefficient, delta_temp) ==
    LET whole == delta_temp \div 10
        fraction == Q10Fractions[(delta_temp % 10) + 1]
    IN  IF whole >= 0 THEN fraction * IntPower(q10_coefficient, whole)
        ELSE fraction \div IntPower(q10_coefficient, -whole)

\* the floor of the temperature factor, 0.1
MinFactor == 1000

\* mutant: the freezing point itself is not taken as freezing
_get_temperature_factor_above(self, temp_c) ==
    IF temp_c < 0 THEN MinFactor
    ELSE LET delta_temp == temp_c - self.reference_temp
             factor == Q10Power(self.q10_coefficient, delta_temp)
         IN  max(MinFactor, factor)

_get_temperature_factor(self, temp_c) ==
    IF temp_c <= 0 THEN MinFactor
    ELSE LET delta_temp == temp_c - self.reference_temp
             factor == Q10Power(self.q10_coefficient, delta_temp)
         IN  max(MinFactor, factor)

\* random.uniform(-1, 1) is drawn at its ends or in the middle: one draw
\* stands for the three gas noises, one for the two of the climate
Uniform == {-1, 0, 1}
NoiseDraws == [gas : Uniform, env : Uniform]

\* _add_noise(value, noise_percentage) when random.uniform gives
\* u * noise_percentage; the percentage is given in hundredths
_add_noise(value, noise_percentage, u) ==
    LET noise == u * noise_percentage * (value \div 100)
    IN  max(0, value + noise)

\* base + increase * time_elapsed, where the increase is
\* rate * temp_factor * (1 + time_elapsed / tau); the elapsed times of the
\* model are whole multiples of tau, so that the division is exact
Level(base, rate, temp_factor, tau, time_elapsed) ==
    LET increase ==
           (rate * temp_factor * ((tau + time_elapsed) \div tau)) \div Scale
    IN  base + (increase * time_elapsed)

\* the three levels update() computes before it adds the noise
Levels(self, room_temp, current_time) ==
    LET time_elapsed == current_time - self.start_time
        temp_factor == _get_temperature_factor(self, room_temp)
    IN  [h2s |-> Level(self.base_h2s, self.h2s_decay_rate, temp_factor,
                       3600, time_elapsed),
         methane |-> Level(self.base_methane, self.methane_decay_rate,
                           temp_factor, 3600, time_elapsed),
         ammonia |-> Level(self.base_ammonia, self.ammonia_decay_rate,
                           temp_factor, 7200, time_elapsed)]

\* mutant: the humidity is not clamped
ClampHumidity_none(h) == h

\* max(0, min(100, self.current_humidity)), in tenths of a percent
ClampHumidity(h) == max(0, min(1000, h))

\* update(room_temp, humidity) at time current_time with the noise u
update(self, room_temp, humidity, current_time, u) ==
    LET lv == Levels(self, room_temp, current_time)
    IN  [k \in DOMAIN self \cup {"current_temp", "current_humidity"} |->
           CASE k = "time_elapsed" -> current_time - self.start_time
             [] k = "current_h2s" -> _add_noise(lv.h2s, 8, u.gas)
             [] k = "current_methane" -> _add_noise(lv.methane, 6, u.gas)
             [] k = "current_ammonia" -> _add_noise(lv.ammonia, 5, u.gas)
             [] k = "current_temp" -> (room_temp * 10) + (u.env * 5)
             [] k = "current_humidity" ->
                   ClampHumidity((humidity * 10) + (u.env * 20))
             [] OTHER -> self[k]]

\* round(x, 2) of a number with four decimals
Round2(x) == ((x + 50) \div 100) * 100

\* the dict get_readings returns after the update; the climate values have
\* one decimal already
Readings(self) ==
    [h2s_ppm |-> Round2(self.current_h2s),
     methane_ppm |-> Round2(self.current_methane),
     ammonia_ppm |-> Round2(self.current_ammonia),
     temp_c |-> self.current_temp,
     humidity |-> self.current_humidity]

\* mutant: the start time is not taken anew
reset_keepstart(self, current_time) ==
    [self EXCEPT !.time_elapsed = 0,
                 !.current_h2s = self.base_h2s,
                 !.current_methane = self.base_methane,
                 !.current_ammonia = self.base_ammonia]

\* reset() at time current_time
reset(self, current_time) ==
    [self EXCEPT !.start_time = current_time,
                 !.time_elapsed = 0,
                 !.current_h2s = self.base_h2s,
                 !.current_methane = self.base_methane,
                 !.current_ammonia = self.base_ammonia]

\* the set points the dashboard hands over: freezing and below, cool,
\* the reference temperature, warm; humidities inside and outside 0 .. 100
TempInputs == {-10, 0, 5, 25, 35}
HumidityInputs == {-5, 60, 99, 150}

\* mock_data.get_readings(room_temp, humidity): the update, and the dict
\* returned; `level` keeps the levels the update computed before the noise
GetReadings ==
    \E room_temp \in TempInputs, humidity \in HumidityInputs, u \in NoiseDraws :
       /\ simulator' = update(simulator, room_temp, humidity, time_time, u)
       /\ ret' = [op |-> "get_readings", room_temp |-> room_temp,
                  humidity |-> humidity, at |-> time_time,
                  level |-> Levels(simulator, room_temp, time_time),
                  value |-> Readings(simulator')]
       /\ UNCHANGED <<call, busVars, insert_errors, tableVars, link,
                      loop_started, calls, loop_running, lifeVars, txnVars>>

\* mock_data.reset_simulation()
ResetSimulation ==
    /\ simulator' = reset(simulator, time_time)
    /\ ret' = [op |-> "reset_simulation", at |-> time_time]
    /\ UNCHANGED <<call, busVars, insert_errors, tableVars, link,
                   loop_started, calls, loop_running, lifeVars, txnVars>>

\* the temperatures _get_temperature_factor is evaluated at
MaxTemp == 40
MinTemp == -MaxTemp

TemperatureFactorRequests ==
    [fn : {"_get_temperature_factor"}, temp_c : MinTemp..MaxTemp,
     done : {FALSE}, ret : {0}]

Call_get_temperature_factor ==
    /\ call.fn = "_get_temperature_factor" /\ ~call.done
    /\ call' = [call EXCEPT !.done = TRUE,
                            !.ret = _get_temperature_factor(simulator,
                                                            call.temp_c)]
    /\ UNCHANGED <<busVars, insert_errors, extVars>>

NoCall == [fn |-> "none", done |-> TRUE]

InitConnIdle ==
    /\ link = "down"
    /\ loop_started = FALSE
    /\ calls = 0
    /\ ret = NoReturn
    /\ loop_running = FALSE
    /\ keep_running = TRUE
    /\ started = FALSE
    /\ threads = <<>>
    /\ ops = <<>>

\* the processes that write to the store file: the dashboard and the
\* standalone subscriber
\* time zones of the host: UTC, or half a day ahead of it
UTC == 0
Zones == {UTC, 1}

Writers == {"dashboard", "subscriber"}

Tables == {"sensor_readings", "visual_predictions", "fusion_decisions"}

\* no transaction is open
NoTxn == [op |-> "none"]

InitTxnIdle ==
    /\ lock = "none"
    /\ txn = [w \in Writers |-> NoTxn]

\* no message has arrived and the store file is new
InitDataIdle(zones) ==
    /\ last_message = [utf8 |-> TRUE, json |-> TRUE, value |-> [t |-> "null"]]
    /\ db_ok = TRUE
    /\ sensor_readings = <<>>
    /\ seq_sensor = 0
    /\ nmsgs = 0
    /\ last = [topic |-> "None",
               payload |-> [utf8 |-> TRUE, json |-> TRUE, value |-> [t |-> "null"]]]
    /\ escaped = FALSE
    /\ insert_errors = <<>>
    /\ visual_predictions = <<>>
    /\ seq_visual = 0
    /\ fusion_decisions = <<>>
    /\ seq_fusion = 0
    /\ now = 0
    /\ tz \in zones
    /\ assigned = [t \in Tables |-> {}]
    /\ simulator = MeatDecaySimulator(0)

InitBusIdle ==
    /\ impl = "SimpleMQTTClient"
    /\ connected = FALSE
    /\ InitDataIdle({UTC})
    /\ InitConnIdle
    /\ InitTxnIdle

InitFusion ==
    /\ \/ call \in FusionAnalysisRequests
       \/ call \in GetFusionDecisionRequests
       \/ call \in MapQualityLevelRequests
       \/ call \in DetermineGasStatusRequests
    /\ InitBusIdle

NextFusion ==
    \/ FusionAnalysis
    \/ CallGetFusionDecision
    \/ CallMapQualityLevel
    \/ CallDetermineGasStatus

SpecFusion == InitFusion /\ [][NextFusion]_vars

(***************************************************************************)
(* Message payloads: the bytes of an MQTT message, described by what       *)
(* decode('utf-8') and json.loads make of them                             *)
(***************************************************************************)

\* JSON values as json.loads returns them
Num(n) == [t |-> "number", n |-> n]
Str(x) == [t |-> "string", s |-> x]
Null == [t |-> "null"]
Arr == [t |-> "array"]
Obj(members) == [t |-> "object", m |-> members]
EmptyObj == Obj([k \in {} |-> Null])

IsDict(v) == v.t = "object"
IsNumber(v) == v.t = "number"
IsNone(v) == v.t = "null"

\* dict.get on a parsed JSON object
DictGet(d, k, default) == Get(d.m, k, default)

\* the Python value a JSON scalar stands for ("None" for null)
PyValue(v) ==
    CASE v.t = "number" -> v.n
      [] v.t = "string" -> v.s
      [] OTHER -> "None"

\* msg.payload.decode('utf-8'): fails on bytes that are not UTF-8
decode(payload) == [ok |-> payload.utf8, text |-> payload]

\* json.loads: fails (JSONDecodeError) on text that is not JSON
json_loads(text) == [ok |-> text.json, value |-> text.value]

SensorKeys == {"mq136_h2s", "mq137_nh3", "mq135_co2", "temperature", "humidity"}

\* the value each field carries in the payloads the model draws
SampleValue(k) ==
    CASE k = "mq136_h2s" -> 5
      [] k = "mq137_nh3" -> 15
      [] k = "mq135_co2" -> 450
      [] k = "temperature" -> 4
      [] k = "humidity" -> 75

SensorsObj(ks) == Obj([k \in ks |-> Num(SampleValue(k))])
QualityObj(level) == Obj([k \in {"level"} |-> level])

Text(v) == [utf8 |-> TRUE, json |-> TRUE, value |-> v]

\* {"sensors": s, "quality": q}
Doc(s, q) ==
    Text(Obj([k \in {"sensors", "quality"} |->
                 IF k = "sensors" THEN s ELSE q]))
\* {"sensors": s}
DocSensorsOnly(s) == Text(Obj([k \in {"sensors"} |-> s]))
\* {"quality": q}
DocQualityOnly(q) == Text(Obj([k \in {"quality"} |-> q]))

\* payloads that do not parse: invalid UTF-8, and text that is not JSON
UnparseablePayloads ==
    {[utf8 |-> FALSE, json |-> FALSE, value |-> Null],
     [utf8 |-> TRUE, json |-> FALSE, value |-> Null]}

\* JSON that is not an object: null, a number, an array
NonObjectPayloads == {Text(Null), Text(Num(7)), Text(Arr)}

\* the sets of sensor fields a payload carries: all, all but one, one, none
FieldSubsets == {ks \in SUBSET SensorKeys : Cardinality(ks) \notin {2, 3}}

\* objects with some of the sensor fields and a quality level
FieldSubsetPayloads ==
    {Doc(SensorsObj(ks), QualityObj(Str("GOOD"))) : ks \in FieldSubsets}

\* objects with all sensor fields and other shapes of the quality group
QualityShapePayloads ==
    {Doc(SensorsObj(SensorKeys), QualityObj(Str("SPOILED"))),
     Doc(SensorsObj(SensorKeys), EmptyObj),
     Doc(SensorsObj(SensorKeys), QualityObj(Null)),
     Doc(SensorsObj(SensorKeys), Null)}

\* objects that lack a whole group
MissingGroupPayloads ==
    {DocSensorsOnly(SensorsObj(SensorKeys)),
     DocSensorsOnly(SensorsObj({"mq136_h2s"})),
     DocQualityOnly(QualityObj(Str("GOOD"))),
     Text(EmptyObj)}

\* objects whose sensors group, or one field of it, has the wrong type
IllTypedPayloads ==
    {Doc(Null, QualityObj(Str("GOOD"))),
     Doc(Obj([k \in SensorKeys |->
                 IF k = "mq136_h2s" THEN Null ELSE Num(SampleValue(k))]),
         QualityObj(Str("GOOD"))),
     Doc(Obj([k \in SensorKeys |->
                 IF k = "temperature" THEN Str("hot") ELSE Num(SampleValue(k))]),
         QualityObj(Str("GOOD")))}

Topics == {MQTT_TOPIC, MQTT_STATUS_TOPIC, MQTT_LWT_TOPIC}

Impls == {"MQTTClient", "SimpleMQTTClient", "MQTTSubscriber"}

\* how many messages the broker delivers in one run of the model
MaxMsgs == 2

(***************************************************************************)
(* db_manager.DatabaseManager.insert_sensor_reading                        *)
(***************************************************************************)

RequiredColumns ==
    {"device_id", "temperature", "humidity", "mq135_co2", "mq136_h2s",
     "mq137_nh3", "quality_level"}

\* Time is counted in half days. A timestamp is the reading of a wall
\* clock, a naive datetime: SQLite stores it as text and compares the
\* texts, which for naive datetimes is the order of the readings.
TicksPerDay == 2

\* a datetime object for wall-clock time d
Datetime(d) == [t |-> "datetime", d |-> d]

\* the times the clock ranges over
MaxTick == 3
Ticks == 0..MaxTick

\* datetime.now(): the host's local time
LocalNow == now + tz

\* CURRENT_TIMESTAMP of SQLite: the UTC time
CURRENT_TIMESTAMP == now

\* milliseconds per day
MsPerDay == 86400000

\* the ISO 8601 text of wall-clock time d
IsoFormat(d) ==
    "2026-01-0" \o ToString((d \div TicksPerDay) + 1) \o
    (IF d % TicksPerDay = 0 THEN "T00:00:00" ELSE "T12:00:00")

\* datetime.fromisoformat: the time the text names; ValueError on other text
fromisoformat(text) ==
    IF \E d \in Ticks : IsoFormat(d) = text
    THEN [ok |-> TRUE, day |-> CHOOSE d \in Ticks : IsoFormat(d) = text]
    ELSE [ok |-> FALSE, day |-> 0]

\* datetime.fromtimestamp(ms / 1000): the local time of the epoch value
fromtimestamp(ms) == ((ms * TicksPerDay) \div MsPerDay) + tz

\* the timestamp column: a string is parsed as ISO 8601, a number is taken
\* as epoch milliseconds, and anything else, a datetime object included,
\* gives the time of the insert
TimestampOf(data, clock) ==
    LET ts == data["timestamp"]
    IN  IF ts.t = "string" THEN fromisoformat(ts.s).day
        ELSE IF ts.t = "number" THEN fromtimestamp(ts.n)
        ELSE clock

\* mutant: the columns are declared without NOT NULL
InsertRaises_nullable(data, dbok) ==
    \/ ~dbok
    \/ \E c \in RequiredColumns \cup {"timestamp"} : c \notin DOMAIN data

\* the insert raises when the store does not accept the write, when a key is
\* missing from the dict (KeyError), when a timestamp string is not ISO 8601
\* (ValueError) or when a NOT NULL column would be None
InsertRaises(data, dbok) ==
    \/ ~dbok
    \/ "timestamp" \notin DOMAIN data
    \/ /\ "timestamp" \in DOMAIN data
       /\ data["timestamp"].t = "string"
       /\ ~fromisoformat(data["timestamp"].s).ok
    \/ \E c \in RequiredColumns : c \notin DOMAIN data
    \/ \E c \in RequiredColumns : c \in DOMAIN data /\ IsNone(data[c])

\* the row written for data, with the identifier AUTOINCREMENT assigns
RowOf(data, seq) ==
    [id |-> seq + 1,
     timestamp |-> TimestampOf(data, LocalNow),
     device_id |-> PyValue(data["device_id"]),
     temperature |-> PyValue(data["temperature"]),
     humidity |-> PyValue(data["humidity"]),
     mq135_co2 |-> PyValue(data["mq135_co2"]),
     mq136_h2s |-> PyValue(data["mq136_h2s"]),
     mq137_nh3 |-> PyValue(data["mq137_nh3"]),
     quality_level |-> PyValue(data["quality_level"])]

\* the outcome of one call: raised, or the table and counter after the commit
insert_sensor_reading(data, dbok, rows, seq) ==
    IF InsertRaises(data, dbok)
    THEN [raised |-> TRUE, rows |-> rows, seq |-> seq]
    ELSE [raised |-> FALSE, rows |-> Append(rows, RowOf(data, seq)),
          seq |-> seq + 1]

(***************************************************************************)
(* insert_visual_prediction, insert_fusion_decision                        *)
(***************************************************************************)

VisualColumns == {"species", "visual_status", "confidence"}
FusionColumns == {"visual_status", "gas_status", "fusion_status"}

\* the columns are nullable, so only a missing key (KeyError) or a store
\* that does not accept the write makes these inserts raise; the timestamp
\* column takes its default, CURRENT_TIMESTAMP
insert_visual_prediction(data, dbok, rows, seq) ==
    IF ~dbok \/ ~(VisualColumns \subseteq DOMAIN data)
    THEN [raised |-> TRUE, rows |-> rows, seq |-> seq]
    ELSE [raised |-> FALSE,
          rows |-> Append(rows, [id |-> seq + 1,
                                 timestamp |-> CURRENT_TIMESTAMP,
                                 species |-> PyValue(data["species"]),
                                 visual_status |-> PyValue(data["visual_status"]),
                                 confidence |-> PyValue(data["confidence"])]),
          seq |-> seq + 1]

insert_fusion_decision(data, dbok, rows, seq) ==
    IF ~dbok \/ ~(FusionColumns \subseteq DOMAIN data)
    THEN [raised |-> TRUE, rows |-> rows, seq |-> seq]
    ELSE [raised |-> FALSE,
          rows |-> Append(rows, [id |-> seq + 1,
                                 timestamp |-> CURRENT_TIMESTAMP,
                                 visual_status |-> PyValue(data["visual_status"]),
                                 gas_status |-> PyValue(data["gas_status"]),
                                 fusion_status |-> PyValue(data["fusion_status"])]),
          seq |-> seq + 1]

(***************************************************************************)
(* SimpleMQTTClient._process_sensor_data, MQTTSubscriber._process_sensor_data *)
(***************************************************************************)

\* the dict handed to insert_sensor_reading; its timestamp is datetime.now()
ReadingOf(h2s, nh3, co2, temp, humidity, quality) ==
    [c \in RequiredColumns \cup {"timestamp"} |->
        CASE c = "timestamp" -> Datetime(LocalNow)
          [] c = "device_id" -> Str("ESP32-Sensor")
          [] c = "temperature" -> temp
          [] c = "humidity" -> humidity
          [] c = "mq135_co2" -> co2
          [] c = "mq136_h2s" -> h2s
          [] c = "mq137_nh3" -> nh3
          [] c = "quality_level" -> quality]

\* nothing was written; every exception is caught and logged inside.
\* insert_error tells whether the exception came from the insert
Dropped(rows, seq) ==
    [raised |-> FALSE, rows |-> rows, seq |-> seq, insert_error |-> FALSE]

\* mutant: a missing field is read by subscript, so it fails the message
process_sensor_data_subscript(payload, dbok, rows, seq) ==
    LET parsed == json_loads(payload)
        data == parsed.value
    IN  IF ~parsed.ok THEN Dropped(rows, seq)
        ELSE IF ~IsDict(data) THEN Dropped(rows, seq)
        ELSE
          LET sensors == DictGet(data, "sensors", EmptyObj)
              quality_data == DictGet(data, "quality", EmptyObj)
          IN  IF ~IsDict(sensors) \/ ~IsDict(quality_data)
              THEN Dropped(rows, seq)
              ELSE IF ~(SensorKeys \subseteq DOMAIN sensors.m)
              THEN Dropped(rows, seq)
              ELSE
                LET h2s == DictGet(sensors, "mq136_h2s", Num(0))
                    nh3 == DictGet(sensors, "mq137_nh3", Num(0))
                    co2 == DictGet(sensors, "mq135_co2", Num(0))
                    temp == DictGet(sensors, "temperature", Num(0))
                    humidity == DictGet(sensors, "humidity", Num(0))
                    quality == DictGet(quality_data, "level", Str("UNKNOWN"))
                IN  IF \E v \in {h2s, nh3, co2, temp, humidity} : ~IsNumber(v)
                    THEN Dropped(rows, seq)
                    ELSE
                      LET ins == insert_sensor_reading(
                                     ReadingOf(h2s, nh3, co2, temp, humidity, quality),
                                     dbok, rows, seq)
                      IN  [raised |-> FALSE, rows |-> ins.rows,
                           seq |-> ins.seq, insert_error |-> ins.raised]

\* mutant: text that is not JSON is taken as the empty object
process_sensor_data_lenient(payload, dbok, rows, seq) ==
    LET parsed == json_loads(payload)
        data == IF parsed.ok THEN parsed.value ELSE EmptyObj
    IN  IF ~IsDict(data) THEN Dropped(rows, seq)
        ELSE
          LET sensors == DictGet(data, "sensors", EmptyObj)
              quality_data == DictGet(data, "quality", EmptyObj)
          IN  IF ~IsDict(sensors) \/ ~IsDict(quality_data)
              THEN Dropped(rows, seq)
              ELSE
                LET h2s == DictGet(sensors, "mq136_h2s", Num(0))
                    nh3 == DictGet(sensors, "mq137_nh3", Num(0))
                    co2 == DictGet(sensors, "mq135_co2", Num(0))
                    temp == DictGet(sensors, "temperature", Num(0))
                    humidity == DictGet(sensors, "humidity", Num(0))
                    quality == DictGet(quality_data, "level", Str("UNKNOWN"))
                IN  IF \E v \in {h2s, nh3, co2, temp, humidity} : ~IsNumber(v)
                    THEN Dropped(rows, seq)
                    ELSE
                      LET ins == insert_sensor_reading(
                                     ReadingOf(h2s, nh3, co2, temp, humidity, quality),
                                     dbok, rows, seq)
                      IN  [raised |-> FALSE, rows |-> ins.rows,
                           seq |-> ins.seq, insert_error |-> ins.raised]

\* json.loads, the .get chain with its defaults, the formatted log line
\* (which raises on a value that is not a number) and the insert, all inside
\* try/except: JSONDecodeError and every other Exception end in a log line
process_sensor_data(payload, dbok, rows, seq) ==
    LET parsed == json_loads(payload)
        data == parsed.value
    IN  IF ~parsed.ok THEN Dropped(rows, seq)
        ELSE IF ~IsDict(data) THEN Dropped(rows, seq)
        ELSE
          LET sensors == DictGet(data, "sensors", EmptyObj)
              quality_data == DictGet(data, "quality", EmptyObj)
          IN  IF ~IsDict(sensors) \/ ~IsDict(quality_data)
              THEN Dropped(rows, seq)
              ELSE
                LET h2s == DictGet(sensors, "mq136_h2s", Num(0))
                    nh3 == DictGet(sensors, "mq137_nh3", Num(0))
                    co2 == DictGet(sensors, "mq135_co2", Num(0))
                    temp == DictGet(sensors, "temperature", Num(0))
                    humidity == DictGet(sensors, "humidity", Num(0))
                    quality == DictGet(quality_data, "level", Str("UNKNOWN"))
                IN  IF \E v \in {h2s, nh3, co2, temp, humidity} : ~IsNumber(v)
                    THEN Dropped(rows, seq)
                    ELSE
                      LET ins == insert_sensor_reading(
                                     ReadingOf(h2s, nh3, co2, temp, humidity, quality),
                                     dbok, rows, seq)
                      IN  [raised |-> FALSE, rows |-> ins.rows,
                           seq |-> ins.seq, insert_error |-> ins.raised]

(***************************************************************************)
(* The message callback of the three clients                               *)
(***************************************************************************)

\* the classes that define _process_sensor_data; MQTTClient._on_message
\* calls self._process_sensor_data, which MQTTClient does not define, so the
\* call raises AttributeError
DefinesProcessSensorData(i) == i \in {"SimpleMQTTClient", "MQTTSubscriber"}

\* the outcome of a callback body that wrote nothing
Untouched(raised, stored, rows, seq) ==
    [raised |-> raised, rows |-> rows, seq |-> seq, stored |-> stored,
     insert_error |-> FALSE]

\* mutant: the payload is processed as telemetry whatever the topic
on_message_body_anytopic(i, topic, payload, dbok, rows, seq) ==
    LET dec == decode(payload)
    IN  IF ~dec.ok
        THEN Untouched(TRUE, FALSE, rows, seq)
        ELSE IF DefinesProcessSensorData(i)
             THEN LET r == process_sensor_data(dec.text, dbok, rows, seq)
                  IN  [raised |-> r.raised, rows |-> r.rows, seq |-> r.seq,
                       stored |-> ~r.raised, insert_error |-> r.insert_error]
             ELSE Untouched(TRUE, FALSE, rows, seq)

\* the body of the try block of _on_message
on_message_body(i, topic, payload, dbok, rows, seq) ==
    LET dec == decode(payload)
    IN  IF ~dec.ok
        THEN Untouched(TRUE, FALSE, rows, seq)
        ELSE IF topic = MQTT_TOPIC
        THEN IF DefinesProcessSensorData(i)
             THEN LET r == process_sensor_data(dec.text, dbok, rows, seq)
                  IN  [raised |-> r.raised, rows |-> r.rows, seq |-> r.seq,
                       stored |-> ~r.raised, insert_error |-> r.insert_error]
             ELSE Untouched(TRUE, FALSE, rows, seq)
        ELSE Untouched(FALSE, TRUE, rows, seq)

\* mutant: an exception raised by the insert leaves the callback
on_message_reraise(i, topic, payload, dbok, rows, seq) ==
    LET b == on_message_body(i, topic, payload, dbok, rows, seq)
    IN  [escaped |-> b.insert_error, rows |-> b.rows, seq |-> b.seq,
         stored |-> b.stored, insert_error |-> b.insert_error]

\* _on_message: the body, inside try / except Exception.  stored tells
\* whether the statements after the topic dispatch were reached
\* (SimpleMQTTClient keeps the payload in last_message there)
on_message(i, topic, payload, dbok, rows, seq) ==
    LET b == on_message_body(i, topic, payload, dbok, rows, seq)
    IN  [escaped |-> FALSE, rows |-> b.rows, seq |-> b.seq,
         stored |-> b.stored, insert_error |-> b.insert_error]

(***************************************************************************)
(* Bus client: actions                                                     *)
(***************************************************************************)

\* _on_connect(rc): CONNACK from the broker; rc 0 is MQTT_ERR_SUCCESS
OnConnect ==
    /\ \E rc \in {0, 5} :
          connected' = IF rc = 0 THEN TRUE ELSE connected
    /\ UNCHANGED <<call, impl, last_message, db_ok, sensor_readings,
                   seq_sensor, nmsgs, last, escaped, insert_errors,
                   simulator>>
    /\ UNCHANGED extVars

\* _on_disconnect
OnDisconnect ==
    /\ connected
    /\ connected' = FALSE
    /\ UNCHANGED <<call, impl, last_message, db_ok, sensor_readings,
                   seq_sensor, nmsgs, last, escaped, insert_errors,
                   simulator>>
    /\ UNCHANGED extVars

\* the message callback on message (topic, payload); messages arrive on the
\* subscriptions made in _on_connect
Handle(topic, payload) ==
    LET r == on_message(impl, topic, payload, db_ok, sensor_readings, seq_sensor)
    IN  /\ sensor_readings' = r.rows
        /\ seq_sensor' = r.seq
        /\ escaped' = r.escaped
        /\ last_message' = IF impl = "SimpleMQTTClient" /\ r.stored
                           THEN payload ELSE last_message
        /\ last' = [topic |-> topic, payload |-> payload]
        /\ nmsgs' = nmsgs + 1
        /\ insert_errors' = IF r.insert_error
                           THEN Append(insert_errors, nmsgs + 1)
                           ELSE insert_errors
        /\ UNCHANGED <<call, impl, connected, db_ok>>
        /\ UNCHANGED extVars

OnMessage ==
    /\ connected
    /\ nmsgs < MaxMsgs
    /\ \E topic \in Topics :
          \/ \E p \in UnparseablePayloads : Handle(topic, p)
          \/ \E p \in NonObjectPayloads : Handle(topic, p)
          \/ \E p \in FieldSubsetPayloads : Handle(topic, p)
          \/ \E p \in QualityShapePayloads : Handle(topic, p)
          \/ \E p \in MissingGroupPayloads : Handle(topic, p)
          \/ \E p \in IllTypedPayloads : Handle(topic, p)

\* the sqlite store stops accepting writes (locked or unwritable file)
StoreFails ==
    /\ db_ok
    /\ db_ok' = FALSE
    /\ UNCHANGED <<call, impl, connected, last_message, sensor_readings,
                   seq_sensor, nmsgs, last, escaped, insert_errors,
                   simulator>>
    /\ UNCHANGED extVars

StoreRecovers ==
    /\ ~db_ok
    /\ db_ok' = TRUE
    /\ UNCHANGED <<call, impl, connected, last_message, sensor_readings,
                   seq_sensor, nmsgs, last, escaped, insert_errors,
                   simulator>>
    /\ UNCHANGED extVars

NoMessage == [topic |-> "None", payload |-> Text(Null)]

\* the store file outlives the process: the tables the bus clients do not
\* write are empty, or hold what an earlier run of the dashboard left there
SamplePrediction ==
    [species |-> Str("Beef"), visual_status |-> Str("Fresh"),
     confidence |-> Num(90)]
SampleDecision ==
    [visual_status |-> Str("Fresh"), gas_status |-> Str("SAFE"),
     fusion_status |-> Str("SAFE")]
EarlierStores ==
    {[visual |-> [raised |-> FALSE, rows |-> <<>>, seq |-> 0],
      fusion |-> [raised |-> FALSE, rows |-> <<>>, seq |-> 0]],
     [visual |-> insert_visual_prediction(SamplePrediction, TRUE, <<>>, 0),
      fusion |-> insert_fusion_decision(SampleDecision, TRUE, <<>>, 0)]}

InitBus ==
    /\ call = NoCall
    /\ impl \in Impls
    /\ connected = FALSE
    /\ last_message = Text(Null)
    /\ db_ok = TRUE
    /\ sensor_readings = <<>>
    /\ seq_sensor = 0
    /\ nmsgs = 0
    /\ last = NoMessage
    /\ escaped = FALSE
    /\ insert_errors = <<>>
    /\ now = 0
    /\ tz = UTC
    /\ simulator = MeatDecaySimulator(0)
    /\ InitConnIdle
    /\ InitTxnIdle
    /\ \E st \in EarlierStores :
          /\ visual_predictions = st.visual.rows
          /\ seq_visual = st.visual.seq
          /\ fusion_decisions = st.fusion.rows
          /\ seq_fusion = st.fusion.seq
          /\ assigned = [t \in Tables |->
                           CASE t = "visual_predictions" -> 1..st.visual.seq
                             [] t = "fusion_decisions" -> 1..st.fusion.seq
                             [] OTHER -> {}]

NextBus ==
    \/ OnConnect
    \/ OnDisconnect
    \/ OnMessage
    \/ StoreFails
    \/ StoreRecovers

SpecBus == InitBus /\ [][NextBus]_vars

(***************************************************************************)
(* connect() and poll()                                                    *)
(***************************************************************************)

\* what one handshake can meet.  client.connect returns MQTT_ERR_SUCCESS in
\* the first three: the CONNACK then arrives and accepts (established), has
\* not arrived when the call returns (pending), or refuses (refused).
\* Otherwise client.connect returns an error code or raises
Outcomes == {"established", "pending", "refused", "rc_error", "exception"}

HandshakeOk(o) == o \in {"established", "pending", "refused"}

\* the paho connection after client.loop(timeout=1.0) has processed what
\* arrived: client.is_connected() holds exactly when it is up
LinkAfterLoop(o) ==
    CASE o = "established" -> "up"
      [] o = "pending" -> "sent"
      [] OTHER -> "refused"

\* the outcome of a connect() call: the fields it leaves, the value it
\* returns, whether an exception left it, how many handshakes it made
Returned(c, lk, ls, value, handshakes) ==
    [connected |-> c, link |-> lk, loop_started |-> ls, value |-> value,
     raised |-> FALSE, handshakes |-> handshakes]

\* connect() of client class i with self.connected = c, the paho connection
\* lk and self._loop_started = ls, when the handshake meets o
connect(i, c, lk, ls, o) ==
    IF i = "SimpleMQTTClient"
    THEN IF lk = "up"
         THEN Returned(TRUE, lk, ls, TRUE, 0)
         ELSE IF HandshakeOk(o)
         THEN Returned(TRUE, LinkAfterLoop(o), TRUE, TRUE, 1)
         ELSE Returned(FALSE, "down", ls, FALSE, 1)
    ELSE IF i = "MQTTClient"
    THEN IF HandshakeOk(o)
         THEN Returned(TRUE, "sent", ls, TRUE, 1)
         ELSE Returned(c, "down", ls, FALSE, 1)
    ELSE IF HandshakeOk(o)
         THEN Returned(IF o = "established" THEN TRUE ELSE c,
                       LinkAfterLoop(o), ls, TRUE, 1)
         ELSE Returned(c, "down", ls, FALSE, 1)

\* mutant: poll() tries a second handshake when the first one fails
poll_retry(c, lk, ls, o) ==
    LET r == connect("SimpleMQTTClient", FALSE, lk, ls, o)
    IN  IF lk = "up"
        THEN Returned(TRUE, lk, ls, TRUE, 0) @@ [connects |-> 0]
        ELSE IF ~r.value
        THEN Returned(FALSE, r.link, r.loop_started, FALSE, 2)
             @@ [connects |-> 2]
        ELSE Returned(r.link = "up", r.link, r.loop_started, r.link = "up", 1)
             @@ [connects |-> 1]

\* SimpleMQTTClient.poll(): the cached flag is synchronised with
\* client.is_connected(); when that is false connect() is called once, and
\* after a successful connect() the flag is synchronised again
poll(c, lk, ls, o) ==
    LET is_actually_connected == lk = "up"
        r == connect("SimpleMQTTClient", is_actually_connected, lk, ls, o)
    IN  IF ~is_actually_connected
        THEN IF ~r.value
             THEN Returned(r.connected, r.link, r.loop_started, FALSE,
                           r.handshakes) @@ [connects |-> 1]
             ELSE Returned(r.link = "up", r.link, r.loop_started,
                           r.link = "up", r.handshakes) @@ [connects |-> 1]
        ELSE Returned(is_actually_connected, lk, ls, is_actually_connected, 0)
             @@ [connects |-> 0]

\* client.loop_stop() followed by client.disconnect(): with the network loop
\* stopped, paho writes the DISCONNECT packet in the caller's thread and
\* calls _on_disconnect when there was a connection to close
Closed(c, lk) == IF lk # "down" THEN FALSE ELSE c

\* disconnect() of client class i: the fields it leaves
disconnect(i, c, lk, ls, kr) ==
    IF i = "SimpleMQTTClient"
    THEN [connected |-> FALSE, link |-> "down", loop_started |-> FALSE,
          loop_running |-> FALSE, keep_running |-> kr]
    ELSE [connected |-> Closed(c, lk), link |-> "down", loop_started |-> ls,
          loop_running |-> FALSE, keep_running |-> FALSE]

\* the classes whose connect() the dashboard calls
ConnectImpls == {"SimpleMQTTClient", "MQTTClient"}

\* how many method calls the user makes in one run of the model
MaxCalls == 3

\* the record kept of a call
ReturnOf(op, o, r, connects) ==
    [op |-> op, outcome |-> o, value |-> r.value, raised |-> r.raised,
     connects |-> connects, handshakes |-> r.handshakes]

\* the user calls connect()
CallConnect ==
    /\ calls < MaxCalls
    /\ \E o \in Outcomes :
          LET r == connect(impl, connected, link, loop_started, o)
          IN  /\ connected' = r.connected
              /\ link' = r.link
              /\ loop_started' = r.loop_started
              /\ loop_running' = (loop_running \/ (r.loop_started /\ ~loop_started))
              /\ ret' = ReturnOf("connect", o, r, 1)
    /\ calls' = calls + 1
    /\ UNCHANGED <<impl, dataVars, lifeVars>>

\* the dashboard calls poll() on its SimpleMQTTClient
CallPoll ==
    /\ impl = "SimpleMQTTClient"
    /\ calls < MaxCalls
    /\ \E o \in Outcomes :
          LET r == poll(connected, link, loop_started, o)
          IN  /\ connected' = r.connected
              /\ link' = r.link
              /\ loop_started' = r.loop_started
              /\ loop_running' = (loop_running \/ (r.loop_started /\ ~loop_started))
              /\ ret' = ReturnOf("poll", o, r, r.connects)
    /\ calls' = calls + 1
    /\ UNCHANGED <<impl, dataVars, lifeVars>>

\* the user calls disconnect()
CallDisconnect ==
    /\ calls < MaxCalls
    /\ LET r == disconnect(impl, connected, link, loop_started, keep_running)
       IN  /\ connected' = r.connected
           /\ link' = r.link
           /\ loop_started' = r.loop_started
           /\ loop_running' = r.loop_running
           /\ keep_running' = r.keep_running
    /\ ret' = [op |-> "disconnect"]
    /\ calls' = calls + 1
    /\ UNCHANGED <<impl, dataVars, started, threads, ops>>

\* the network loop processes the CONNACK: _on_connect(rc)
ConnAck ==
    /\ link = "sent"
    /\ loop_running
    /\ \E rc \in {0, 5} :
          /\ link' = IF rc = 0 THEN "up" ELSE "refused"
          /\ connected' = IF rc = 0 THEN TRUE ELSE connected
    /\ UNCHANGED <<impl, dataVars, loop_started, calls, ret, loop_running,
                   lifeVars>>

\* the network loop finds the connection lost or closed by the broker:
\* _on_disconnect
LinkLost ==
    /\ link \in {"sent", "refused", "up"}
    /\ loop_running
    /\ link' = "down"
    /\ connected' = FALSE
    /\ UNCHANGED <<impl, dataVars, loop_started, calls, ret, loop_running,
                   lifeVars>>

InitApi ==
    /\ InitTxnIdle
    /\ call = NoCall
    /\ impl \in ConnectImpls
    /\ connected = FALSE
    /\ InitDataIdle({UTC})
    /\ InitConnIdle

NextApi ==
    \/ CallConnect
    \/ CallPoll
    \/ CallDisconnect
    \/ ConnAck
    \/ LinkLost

SpecApi == InitApi /\ [][NextApi]_vars

(***************************************************************************)
(* MQTTClient.start(), stop() and the background loop _run                 *)
(***************************************************************************)

\* how many lifecycle calls the user makes in one run of the model
MaxOps == 3

\* a thread as Thread(target=_run).start() leaves it
NewThread == [pc |-> "while", since |-> "none"]

\* mutant: start() without the _started guard
start_unguarded(s, ths) ==
    [started |-> TRUE, threads |-> Append(ths, NewThread)]

\* start(): ignored when _started is set, else the flag is set and one
\* daemon thread running _run is made
start(s, ths) ==
    IF s THEN [started |-> s, threads |-> ths]
    ELSE [started |-> TRUE, threads |-> Append(ths, NewThread)]

\* mutant: the loop ends after the reconnect delay
run_once(p, kr, c) ==
    CASE p = "while" -> IF kr THEN "if1" ELSE "done"
      [] p = "if1" -> IF ~c THEN "connect" ELSE "sleep"
      [] p = "sleep" -> "if2"
      [] p = "if2" -> IF ~c THEN "delay" ELSE "while"
      [] p = "delay" -> "done"

\* the control flow of _run outside the connect() call: the while test on
\* keep_running, the test of connected before connect(), time.sleep(0.1),
\* the test of connected before the reconnect delay, the delay
run(p, kr, c) ==
    CASE p = "while" -> IF kr THEN "if1" ELSE "done"
      [] p = "if1" -> IF ~c THEN "connect" ELSE "sleep"
      [] p = "sleep" -> "if2"
      [] p = "if2" -> IF ~c THEN "delay" ELSE "while"
      [] p = "delay" -> "while"

Start ==
    /\ Len(ops) < MaxOps
    /\ LET r == start(started, threads)
       IN  /\ started' = r.started
           /\ threads' = r.threads
    /\ ops' = Append(ops, "start")
    /\ UNCHANGED <<call, busVars, insert_errors, tableVars, connVars,
                   loop_running, keep_running, txnVars, simulator>>

\* stop(): the three flags, then client.loop_stop() and client.disconnect()
Stop ==
    /\ Len(ops) < MaxOps
    /\ keep_running' = FALSE
    /\ started' = FALSE
    /\ loop_started' = FALSE
    /\ loop_running' = FALSE
    /\ link' = "down"
    /\ connected' = Closed(connected, link)
    /\ ops' = Append(ops, "stop")
    /\ UNCHANGED <<impl, dataVars, calls, ret, threads>>

\* disconnect(): keep_running is cleared, then client.loop_stop() and
\* client.disconnect(); _started and _loop_started stay
Disconnect ==
    /\ Len(ops) < MaxOps
    /\ LET r == disconnect(impl, connected, link, loop_started, keep_running)
       IN  /\ connected' = r.connected
           /\ link' = r.link
           /\ loop_started' = r.loop_started
           /\ loop_running' = r.loop_running
           /\ keep_running' = r.keep_running
    /\ ops' = Append(ops, "disconnect")
    /\ UNCHANGED <<impl, dataVars, calls, ret, started, threads>>

\* thread t runs one of the tests or sleeps of _run
RunControl(t) ==
    /\ threads[t].pc \in {"while", "if1", "sleep", "if2", "delay"}
    /\ threads' = [threads EXCEPT
          ![t].pc = run(threads[t].pc, keep_running, connected),
          ![t].since = IF threads[t].pc = "delay" THEN "delay" ELSE @]
    /\ UNCHANGED <<call, busVars, insert_errors, tableVars, connVars,
                   loop_running, keep_running, started, ops, txnVars,
                   simulator>>

\* thread t calls self.connect()
RunConnect(t) ==
    /\ threads[t].pc = "connect"
    /\ \E o \in Outcomes :
          LET r == connect(impl, connected, link, loop_started, o)
          IN  /\ connected' = r.connected
              /\ link' = r.link
              /\ threads' = [threads EXCEPT
                    ![t].pc = IF r.value THEN "loopstart" ELSE "sleep",
                    ![t].since = "attempt"]
    /\ UNCHANGED <<impl, dataVars, loop_started, calls, ret, loop_running,
                   keep_running, started, ops>>

\* thread t, after a successful connect(): loop_start() unless
\* _loop_started is set
RunLoopStart(t) ==
    /\ threads[t].pc = "loopstart"
    /\ loop_running' = (loop_running \/ ~loop_started)
    /\ loop_started' = TRUE
    /\ threads' = [threads EXCEPT ![t].pc = "sleep"]
    /\ UNCHANGED <<impl, connected, dataVars, link, calls, ret,
                   keep_running, started, ops>>

Run == \E t \in DOMAIN threads : RunControl(t) \/ RunConnect(t) \/ RunLoopStart(t)

\* a successful handshake made by a background thread
RunConnectOk ==
    \E t \in DOMAIN threads : RunConnect(t) /\ threads'[t].pc = "loopstart"

\* the broker delivers a telemetry message to the connected client
Deliver ==
    /\ link = "up"
    /\ loop_running
    /\ nmsgs < MaxMsgs
    /\ Handle(MQTT_TOPIC, Doc(SensorsObj(SensorKeys), QualityObj(Str("GOOD"))))

InitClient ==
    /\ InitTxnIdle
    /\ call = NoCall
    /\ impl = "MQTTClient"
    /\ connected = FALSE
    /\ InitDataIdle({UTC})
    /\ InitConnIdle

NextClient ==
    \/ Start
    \/ Stop
    \/ Disconnect
    \/ Run
    \/ ConnAck
    \/ LinkLost
    \/ Deliver

SpecClient == InitClient /\ [][NextClient]_vars

\* threads are scheduled fairly, and a handshake that can succeed again and
\* again does succeed
SpecClientFair ==
    /\ SpecClient
    /\ WF_vars(Run)
    /\ SF_vars(RunConnectOk)

(***************************************************************************)
(* MQTTSubscriber.run(): the standalone subscriber process                 *)
(***************************************************************************)

\* where run() goes after its connect() call: into the client.loop() cycle,
\* or to sys.exit(1)
run_after_connect(value) == IF value THEN "loop" ELSE "exit1"

\* run() calls self.connect()
SubConnect ==
    /\ threads[1].pc = "connect"
    /\ \E o \in Outcomes :
          LET r == connect(impl, connected, link, loop_started, o)
          IN  /\ connected' = r.connected
              /\ link' = r.link
              /\ ret' = ReturnOf("connect", o, r, 1)
              /\ threads' = [threads EXCEPT ![1].pc = run_after_connect(r.value)]
              /\ loop_running' = r.value
    /\ UNCHANGED <<impl, dataVars, loop_started, calls, keep_running, started,
                   ops>>

\* client.loop(timeout=1.0) hands a message to _on_message
SubMessage ==
    /\ link = "up"
    /\ loop_running
    /\ OnMessage

\* SIGINT or SIGTERM: _signal_handler clears keep_running, disconnects and
\* calls sys.exit(0); the finally clause of run() disconnects again
Signal ==
    /\ threads[1].pc \in {"connect", "loop"}
    /\ keep_running' = FALSE
    /\ link' = "down"
    /\ connected' = FALSE
    /\ loop_running' = FALSE
    /\ threads' = [threads EXCEPT ![1].pc = "exit0"]
    /\ UNCHANGED <<impl, dataVars, loop_started, calls, ret, started, ops>>

InitSubscriber ==
    /\ InitTxnIdle
    /\ call = NoCall
    /\ impl = "MQTTSubscriber"
    /\ connected = FALSE
    /\ InitDataIdle({UTC})
    /\ link = "down"
    /\ loop_started = FALSE
    /\ calls = 0
    /\ ret = NoReturn
    /\ loop_running = FALSE
    /\ keep_running = TRUE
    /\ started = FALSE
    /\ threads = <<[pc |-> "connect", since |-> "none"]>>
    /\ ops = <<>>

NextSubscriber ==
    \/ SubConnect
    \/ ConnAck
    \/ LinkLost
    \/ SubMessage
    \/ StoreFails
    \/ StoreRecovers
    \/ Signal

SpecSubscriber == InitSubscriber /\ [][NextSubscriber]_vars

(***************************************************************************)
(* DatabaseManager: write transactions on the store file                   *)
(***************************************************************************)

\* how many rows are inserted in one run of the model
MaxInserts == 2

\* the three tables and their AUTOINCREMENT counters, as one value
TheStore ==
    [t \in Tables |->
        CASE t = "sensor_readings" -> [rows |-> sensor_readings, seq |-> seq_sensor]
          [] t = "visual_predictions" -> [rows |-> visual_predictions, seq |-> seq_visual]
          [] t = "fusion_decisions" -> [rows |-> fusion_decisions, seq |-> seq_fusion]]

\* the readings handed to insert_sensor_reading: stamped by the caller with
\* a datetime object or with the ISO text of day 0; a null quality level
\* violates NOT NULL
SensorInputs ==
    {[c \in RequiredColumns \cup {"timestamp"} |->
         CASE c = "timestamp" -> ts
           [] c = "device_id" -> Str("ESP32-Sensor")
           [] c = "quality_level" -> q
           [] OTHER -> Num(SampleValue(c))] :
       ts \in {Datetime(LocalNow), Str(IsoFormat(0))}, q \in {Str("GOOD"), Null}}

InsertInputs(t) ==
    CASE t = "sensor_readings" -> SensorInputs
      [] t = "visual_predictions" -> {SamplePrediction}
      [] t = "fusion_decisions" -> {SampleDecision}

\* the largest identifier among rows, 0 for an empty table
MaxRowId(rows) ==
    IF rows = <<>> THEN 0
    ELSE CHOOSE m \in {rows[i].id : i \in DOMAIN rows} :
            \A i \in DOMAIN rows : rows[i].id <= m

\* mutant: identifiers are taken from the rows present (a rowid table
\* without AUTOINCREMENT)
InsertInto_rowid(t, data, dbok, rows, seq) ==
    CASE t = "sensor_readings" ->
           insert_sensor_reading(data, dbok, rows, MaxRowId(rows))
      [] t = "visual_predictions" ->
           insert_visual_prediction(data, dbok, rows, MaxRowId(rows))
      [] t = "fusion_decisions" ->
           insert_fusion_decision(data, dbok, rows, MaxRowId(rows))

\* the insert method of table t
InsertInto(t, data, dbok, rows, seq) ==
    CASE t = "sensor_readings" -> insert_sensor_reading(data, dbok, rows, seq)
      [] t = "visual_predictions" -> insert_visual_prediction(data, dbok, rows, seq)
      [] t = "fusion_decisions" -> insert_fusion_decision(data, dbok, rows, seq)

\* the retentions cleanup_old_data is called with, in days
RetentionInputs == {-1, 0, 1}

\* mutant: only a retention of 0 disables the cleanup
RetentionDisabled_zero(retention_days) == retention_days = 0

\* `if retention_days <= 0`: data retention is disabled
RetentionDisabled(retention_days) == retention_days <= 0

\* cleanup_old_data: nothing when the retention is not positive, else the
\* rows stamped before now - retention leave the three tables; the
\* AUTOINCREMENT counters stay
cleanup_old_data(retention_days, store, clock) ==
    IF RetentionDisabled(retention_days) THEN store
    ELSE LET cutoff_date == clock - (retention_days * TicksPerDay)
         IN  [t \in Tables |->
                [rows |-> SelectSeq(store[t].rows,
                                    LAMBDA r : ~(r.timestamp < cutoff_date)),
                 seq |-> store[t].seq]]

\* mutant: fusion_decisions is not deleted from
delete_all_data_two(store) ==
    [store |-> [t \in Tables |->
                  [rows |-> IF t = "fusion_decisions" THEN store[t].rows ELSE <<>>,
                   seq |-> store[t].seq]],
     deleted |-> [t \in Tables |->
                    IF t = "fusion_decisions" THEN 0 ELSE Len(store[t].rows)]]

\* delete_all_data: every row leaves; the result gives the counts
delete_all_data(store) ==
    [store |-> [t \in Tables |-> [rows |-> <<>>, seq |-> store[t].seq]],
     deleted |-> [t \in Tables |-> Len(store[t].rows)]]

\* the call ended without committing: an exception left the insert, or was
\* logged by cleanup_old_data, or was reported by delete_all_data
Failed(op, t, w, arg) ==
    [op |-> op, table |-> t, writer |-> w, arg |-> arg, raised |-> TRUE,
     value |-> 0]

\* process w calls the insert method of table t: the INSERT is executed
\* inside a transaction that holds the write lock until the commit; on a
\* locked file or a failing statement the exception leaves the method
BeginInsert(w, t) ==
    /\ txn[w] = NoTxn
    /\ seq_sensor + seq_visual + seq_fusion < MaxInserts
    /\ \E data \in InsertInputs(t) :
          LET r == InsertInto(t, data, db_ok, TheStore[t].rows, TheStore[t].seq)
          IN  IF lock # "none" \/ r.raised
              THEN /\ ret' = Failed("insert", t, w, <<>>)
                   /\ UNCHANGED <<lock, txn>>
              ELSE /\ lock' = w
                   /\ txn' = [txn EXCEPT ![w] =
                         [op |-> "insert", table |-> t, arg |-> <<>>,
                          store |-> [TheStore EXCEPT ![t] =
                                       [rows |-> r.rows, seq |-> r.seq]],
                          value |-> r.seq]]
                   /\ UNCHANGED ret
    /\ UNCHANGED <<call, busVars, insert_errors, tableVars, link,
                   loop_started, calls, loop_running, lifeVars, assigned,
                   simulator>>

\* process w calls cleanup_old_data
BeginCleanup(w) ==
    /\ txn[w] = NoTxn
    /\ \E retention_days \in RetentionInputs :
          IF ~RetentionDisabled(retention_days) /\ lock # "none"
          THEN /\ ret' = Failed("cleanup", "all", w, retention_days)
               /\ UNCHANGED <<lock, txn>>
          ELSE IF RetentionDisabled(retention_days)
          THEN /\ ret' = [op |-> "cleanup", table |-> "all", writer |-> w,
                           arg |-> retention_days, raised |-> FALSE,
                           value |-> 0]
               /\ UNCHANGED <<lock, txn>>
          ELSE /\ lock' = w
               /\ txn' = [txn EXCEPT ![w] =
                     [op |-> "cleanup", table |-> "all",
                      arg |-> retention_days,
                      cutoff_date |-> LocalNow - (retention_days * TicksPerDay),
                      store |-> cleanup_old_data(retention_days, TheStore, LocalNow),
                      value |-> 0]]
               /\ UNCHANGED ret
    /\ UNCHANGED <<call, busVars, insert_errors, tableVars, link,
                   loop_started, calls, loop_running, lifeVars, assigned,
                   simulator>>

\* process w calls delete_all_data
BeginPurge(w) ==
    /\ txn[w] = NoTxn
    /\ IF lock # "none"
       THEN /\ ret' = Failed("purge", "all", w, <<>>)
            /\ UNCHANGED <<lock, txn>>
       ELSE /\ lock' = w
            /\ txn' = [txn EXCEPT ![w] =
                  [op |-> "purge", table |-> "all", arg |-> <<>>,
                   store |-> delete_all_data(TheStore).store,
                   value |-> delete_all_data(TheStore).deleted]]
            /\ UNCHANGED ret
    /\ UNCHANGED <<call, busVars, insert_errors, tableVars, link,
                   loop_started, calls, loop_running, lifeVars, assigned,
                   simulator>>

\* conn.commit(): the transaction of w becomes the content of the file and
\* the method returns (an insert returns cursor.lastrowid)
Commit(w) ==
    /\ txn[w] # NoTxn
    /\ lock = w
    /\ sensor_readings' = txn[w].store["sensor_readings"].rows
    /\ seq_sensor' = txn[w].store["sensor_readings"].seq
    /\ visual_predictions' = txn[w].store["visual_predictions"].rows
    /\ seq_visual' = txn[w].store["visual_predictions"].seq
    /\ fusion_decisions' = txn[w].store["fusion_decisions"].rows
    /\ seq_fusion' = txn[w].store["fusion_decisions"].seq
    /\ ret' = [op |-> txn[w].op, table |-> txn[w].table, writer |-> w,
               arg |-> txn[w].arg, raised |-> FALSE, value |-> txn[w].value]
    /\ assigned' = IF txn[w].op = "insert"
                   THEN [assigned EXCEPT ![txn[w].table] = @ \cup {txn[w].value}]
                   ELSE assigned
    /\ lock' = "none"
    /\ txn' = [txn EXCEPT ![w] = NoTxn]
    /\ UNCHANGED <<call, impl, connected, last_message, db_ok, nmsgs, last,
                   escaped, insert_errors, now, tz, link, loop_started, calls,
                   loop_running, lifeVars, simulator>>

\* half a day passes
Tick ==
    /\ now < MaxTick
    /\ now' = now + 1
    /\ UNCHANGED <<call, busVars, insert_errors, visual_predictions,
                   seq_visual, fusion_decisions, seq_fusion, tz,
                   connVars, loop_running, lifeVars, txnVars, simulator>>

InitStore ==
    /\ call = NoCall
    /\ impl = "SimpleMQTTClient"
    /\ connected = FALSE
    /\ InitDataIdle(Zones)
    /\ InitConnIdle
    /\ InitTxnIdle

NextStore ==
    \/ \E w \in Writers, t \in Tables : BeginInsert(w, t)
    \/ \E w \in Writers : BeginCleanup(w)
    \/ \E w \in Writers : BeginPurge(w)
    \/ \E w \in Writers : Commit(w)
    \/ Tick

SpecStore == InitStore /\ [][NextStore]_vars

(***************************************************************************)
(* DatabaseManager: the calls one process makes, each taken as one step    *)
(***************************************************************************)

\* how many readings one run of the model inserts
MaxReadings == 2

\* a reading as the callers build it: all gas values and the temperature
\* are v, the label is q
Reading(ts, v, q) ==
    [c \in RequiredColumns \cup {"timestamp"} |->
        CASE c = "timestamp" -> ts
          [] c = "device_id" -> Str("ESP32-Sensor")
          [] c = "quality_level" -> Str(q)
          [] c = "humidity" -> Num(SampleValue(c))
          [] OTHER -> Num(v)]

\* the readings inserted: stamped now or with the ISO text of time 0, of a
\* sample at the freezing point with no gas, or of a spoiled one
ReadingInputs ==
    {Reading(ts, vq[1], vq[2]) :
        ts \in {Datetime(LocalNow), Str(IsoFormat(0))},
        vq \in {<<0, "GOOD">>, <<SampleValue("mq136_h2s"), "SPOILED">>}}

\* data without the key c, and data with None under the key c
Without(data, c) == [k \in DOMAIN data \ {c} |-> data[k]]
WithNone(data, c) == [data EXCEPT ![c] = Null]

\* readings that lack a required field or carry None in it
DefectiveInputs ==
    LET data == Reading(Datetime(LocalNow), 0, "GOOD")
    IN  {Without(data, c) : c \in RequiredColumns} \cup
        {WithNone(data, c) : c \in RequiredColumns}

\* the value a call of the store returned, or that it raised
Result(op, arg, raised, value) ==
    [op |-> op, arg |-> arg, raised |-> raised, value |-> value]

\* db.insert_sensor_reading(data)
InsertReading ==
    /\ seq_sensor < MaxReadings
    /\ \E data \in ReadingInputs \cup DefectiveInputs :
          LET r == insert_sensor_reading(data, db_ok, sensor_readings, seq_sensor)
          IN  /\ sensor_readings' = r.rows
              /\ seq_sensor' = r.seq
              /\ ret' = Result("insert_sensor_reading", data, r.raised,
                               IF r.raised THEN 0 ELSE r.seq)
    /\ UNCHANGED <<call, impl, connected, last_message, db_ok, nmsgs, last,
                   escaped, insert_errors, tableVars, link, loop_started,
                   calls, loop_running, lifeVars, txnVars, simulator>>

\* the entries of idx_sensor_timestamp: the rows by timestamp, and by rowid
\* within one timestamp
idx_sensor_timestamp(rows) ==
    SortSeq(rows, LAMBDA a, b :
                     \/ a.timestamp < b.timestamp
                     \/ a.timestamp = b.timestamp /\ a.id < b.id)

Reverse(s) == [i \in 1..Len(s) |-> s[Len(s) + 1 - i]]

\* mutant: no ORDER BY, the first rows of the table
get_recent_readings_unordered(limit, dbok, rows) ==
    IF ~dbok THEN <<>>
    ELSE SubSeq(rows, 1, IF limit < Len(rows) THEN limit ELSE Len(rows))

\* get_recent_readings: ORDER BY timestamp DESC LIMIT ? walks the index
\* backwards and stops after limit rows; [] when the query fails
get_recent_readings(limit, dbok, rows) ==
    IF ~dbok THEN <<>>
    ELSE LET scan == Reverse(idx_sensor_timestamp(rows))
         IN  SubSeq(scan, 1, IF limit < Len(scan) THEN limit ELSE Len(scan))

\* mutant: the bounds are exclusive
get_readings_in_range_open(start_time, end_time, dbok, rows) ==
    IF ~dbok THEN <<>>
    ELSE SelectSeq(idx_sensor_timestamp(rows),
                   LAMBDA r : start_time < r.timestamp /\ r.timestamp < end_time)

\* get_readings_in_range: timestamp BETWEEN ? AND ? ORDER BY timestamp ASC
\* walks the index forwards over the interval; [] when the query fails
get_readings_in_range(start_time, end_time, dbok, rows) ==
    IF ~dbok THEN <<>>
    ELSE SelectSeq(idx_sensor_timestamp(rows),
                   LAMBDA r : start_time <= r.timestamp /\ r.timestamp <= end_time)

\* Python's None as a return value
None == Null

\* mutant: the first row inserted
get_latest_reading_first(dbok, rows) ==
    IF ~dbok \/ rows = <<>> THEN None ELSE rows[1]

\* get_latest_reading: ORDER BY timestamp DESC LIMIT 1; None when there is
\* no row and when the query fails
get_latest_reading(dbok, rows) ==
    LET found == get_recent_readings(1, dbok, rows)
    IN  IF found = <<>> THEN None ELSE found[1]

\* hours per day, for timedelta(hours=hours)
HoursPerDay == 24

\* an SQL aggregate: a fraction, or NULL (written with denominator 0) over
\* no rows
NULL == [num |-> 0, den |-> 0]

RECURSIVE SumSeq(_)
SumSeq(vals) ==
    IF vals = <<>> THEN 0 ELSE Head(vals) + SumSeq(Tail(vals))

Column(rows, c) == [i \in DOMAIN rows |-> rows[i][c]]

AVG(vals) ==
    IF vals = <<>> THEN NULL ELSE [num |-> SumSeq(vals), den |-> Len(vals)]

MIN(vals) ==
    IF vals = <<>> THEN NULL
    ELSE [num |-> CHOOSE m \in {vals[i] : i \in DOMAIN vals} :
                     \A i \in DOMAIN vals : m <= vals[i],
          den |-> 1]

MAX(vals) ==
    IF vals = <<>> THEN NULL
    ELSE [num |-> CHOOSE m \in {vals[i] : i \in DOMAIN vals} :
                     \A i \in DOMAIN vals : m >= vals[i],
          den |-> 1]

\* round(x, 2), as a number of hundredths
round2(x) == Num(((200 * x.num) + x.den) \div (2 * x.den))

\* round(row[i], 2) if row[i] else None: NULL and 0 are both falsy
RoundedOrNone(x) ==
    IF x.den = 0 \/ x.num = 0 THEN None ELSE round2(x)

\* the quality_level groups and their counts
QualityDistribution(rows) ==
    [q \in {rows[i].quality_level : i \in DOMAIN rows} |->
        Cardinality({i \in DOMAIN rows : rows[i].quality_level = q})]

\* an empty dict
EmptyDict == [k \in {} |-> None]

\* mutant: a window without rows is reported as a failure
get_statistics_strict(hours, dbok, rows, clock) ==
    IF ~dbok THEN EmptyDict
    ELSE LET start_time == clock - ((hours * TicksPerDay) \div HoursPerDay)
             w == SelectSeq(rows, LAMBDA r : r.timestamp >= start_time)
         IN  IF w = <<>> THEN EmptyDict
             ELSE [count |-> Len(w),
                   avg_temp |-> RoundedOrNone(AVG(Column(w, "temperature"))),
                   avg_humidity |-> RoundedOrNone(AVG(Column(w, "humidity"))),
                   avg_co2 |-> RoundedOrNone(AVG(Column(w, "mq135_co2"))),
                   avg_h2s |-> RoundedOrNone(AVG(Column(w, "mq136_h2s"))),
                   avg_nh3 |-> RoundedOrNone(AVG(Column(w, "mq137_nh3"))),
                   min_temp |-> RoundedOrNone(MIN(Column(w, "temperature"))),
                   max_temp |-> RoundedOrNone(MAX(Column(w, "temperature"))),
                   min_h2s |-> RoundedOrNone(MIN(Column(w, "mq136_h2s"))),
                   max_h2s |-> RoundedOrNone(MAX(Column(w, "mq136_h2s"))),
                   min_nh3 |-> RoundedOrNone(MIN(Column(w, "mq137_nh3"))),
                   max_nh3 |-> RoundedOrNone(MAX(Column(w, "mq137_nh3"))),
                   quality_distribution |-> QualityDistribution(w)]

\* get_statistics: the aggregates over the rows stamped at or after
\* now - hours; {} when the query fails
get_statistics(hours, dbok, rows, clock) ==
    IF ~dbok THEN EmptyDict
    ELSE LET start_time == clock - ((hours * TicksPerDay) \div HoursPerDay)
             w == SelectSeq(rows, LAMBDA r : r.timestamp >= start_time)
         IN  [count |-> Len(w),
              avg_temp |-> RoundedOrNone(AVG(Column(w, "temperature"))),
              avg_humidity |-> RoundedOrNone(AVG(Column(w, "humidity"))),
              avg_co2 |-> RoundedOrNone(AVG(Column(w, "mq135_co2"))),
              avg_h2s |-> RoundedOrNone(AVG(Column(w, "mq136_h2s"))),
              avg_nh3 |-> RoundedOrNone(AVG(Column(w, "mq137_nh3"))),
              min_temp |-> RoundedOrNone(MIN(Column(w, "temperature"))),
              max_temp |-> RoundedOrNone(MAX(Column(w, "temperature"))),
              min_h2s |-> RoundedOrNone(MIN(Column(w, "mq136_h2s"))),
              max_h2s |-> RoundedOrNone(MAX(Column(w, "mq136_h2s"))),
              min_nh3 |-> RoundedOrNone(MIN(Column(w, "mq137_nh3"))),
              max_nh3 |-> RoundedOrNone(MAX(Column(w, "mq137_nh3"))),
              quality_distribution |-> QualityDistribution(w)]

\* the arguments the queries are called with
Limits == 0..(MaxReadings + 1)
RangeInputs == Ticks \X Ticks
WindowInputs == {0, 12, 24}

\* a query: nothing changes but what the caller holds
Query(op, arg, value) ==
    /\ ret' = Result(op, arg, FALSE, value)
    /\ UNCHANGED <<call, busVars, insert_errors, tableVars, link,
                   loop_started, calls, loop_running, lifeVars, txnVars,
                   simulator>>

GetRecentReadings ==
    \E limit \in Limits :
       Query("get_recent_readings", limit,
             get_recent_readings(limit, db_ok, sensor_readings))

GetReadingsInRange ==
    \E se \in RangeInputs :
       Query("get_readings_in_range", se,
             get_readings_in_range(se[1], se[2], db_ok, sensor_readings))

GetLatestReading ==
    Query("get_latest_reading", <<>>,
          get_latest_reading(db_ok, sensor_readings))

GetStatistics ==
    \E hours \in WindowInputs :
       Query("get_statistics", hours,
             get_statistics(hours, db_ok, sensor_readings, LocalNow))

\* db.cleanup_old_data(retention_days): the exception of a failed cleanup
\* is logged and the call returns as it does after a cleanup
CleanupOldData ==
    \E retention_days \in RetentionInputs :
       LET after == IF db_ok
                    THEN cleanup_old_data(retention_days, TheStore, LocalNow)
                    ELSE TheStore
       IN  /\ sensor_readings' = after["sensor_readings"].rows
           /\ visual_predictions' = after["visual_predictions"].rows
           /\ fusion_decisions' = after["fusion_decisions"].rows
           /\ ret' = Result("cleanup_old_data", retention_days, FALSE, None)
           /\ UNCHANGED <<call, impl, connected, last_message, db_ok,
                          seq_sensor, nmsgs, last, escaped, insert_errors,
                          seq_visual, seq_fusion, now, tz, link,
                          loop_started, calls, loop_running, lifeVars,
                          txnVars, simulator>>

\* db.delete_all_data(): on a failure the counts are 0 and the dict has the
\* message under 'error'
DeleteAllData ==
    LET r == delete_all_data(TheStore)
        after == IF db_ok THEN r.store ELSE TheStore
    IN  /\ sensor_readings' = after["sensor_readings"].rows
        /\ visual_predictions' = after["visual_predictions"].rows
        /\ fusion_decisions' = after["fusion_decisions"].rows
        /\ ret' = Result("delete_all_data", <<>>, FALSE,
                         IF db_ok THEN r.deleted
                         ELSE [k \in Tables \cup {"error"} |->
                                 IF k = "error" THEN "str(e)" ELSE 0])
        /\ UNCHANGED <<call, impl, connected, last_message, db_ok,
                       seq_sensor, nmsgs, last, escaped, insert_errors,
                       seq_visual, seq_fusion, now, tz, link, loop_started,
                       calls, loop_running, lifeVars, txnVars, simulator>>

\* the store file is new and the host keeps UTC: one process calls the
\* store, one call at a time
InitQueries ==
    /\ InitStore
    /\ tz = UTC

NextQueries ==
    \/ InsertReading
    \/ GetRecentReadings
    \/ GetReadingsInRange
    \/ GetLatestReading
    \/ GetStatistics
    \/ CleanupOldData
    \/ DeleteAllData
    \/ Tick
    \/ StoreFails
    \/ StoreRecovers

SpecQueries == InitQueries /\ [][NextQueries]_vars

(***************************************************************************)
(* DatabaseManager.insert_sensor_reading: the timestamp column, for each   *)
(* form of the timestamp field                                             *)
(***************************************************************************)

\* the epoch milliseconds of the UTC time d
EpochMs(d) == d * (MsPerDay \div TicksPerDay)

\* the forms of the field: a datetime object, an ISO 8601 text, epoch
\* milliseconds, each of every time of the model
TimestampInputs ==
    {Datetime(d) : d \in Ticks} \cup {Str(IsoFormat(d)) : d \in Ticks} \cup
    {Num(EpochMs(d)) : d \in Ticks}

InsertSensorReadingRequests ==
    {[fn |-> "insert_sensor_reading", data |-> Reading(ts, 0, "GOOD"),
      done |-> FALSE] : ts \in TimestampInputs}

\* db.insert_sensor_reading(data) on the pending request
CallInsertSensorReading ==
    /\ call.fn = "insert_sensor_reading" /\ ~call.done
    /\ LET r == insert_sensor_reading(call.data, db_ok, sensor_readings,
                                      seq_sensor)
       IN  /\ sensor_readings' = r.rows
           /\ seq_sensor' = r.seq
    /\ call' = [call EXCEPT !.done = TRUE]
    /\ UNCHANGED <<impl, connected, last_message, db_ok, nmsgs, last,
                   escaped, insert_errors, tableVars, link, loop_started,
                   calls, ret, loop_running, lifeVars, txnVars, simulator>>

\* the store file is new; the reading is inserted at any time of the clock
InitInsert ==
    /\ call \in InsertSensorReadingRequests
    /\ impl = "SimpleMQTTClient"
    /\ connected = FALSE
    /\ InitDataIdle(Zones)
    /\ InitConnIdle
    /\ InitTxnIdle

NextInsert ==
    \/ CallInsertSensorReading
    \/ Tick

SpecInsert == InitInsert /\ [][NextInsert]_vars

(***************************************************************************)
(* mock_data: the dashboard reads and resets the simulator                 *)
(***************************************************************************)

\* the module has been imported: _simulator was constructed at time 0
InitSimulator ==
    /\ call = NoCall
    /\ InitBusIdle

NextSimulator ==
    \/ GetReadings
    \/ ResetSimulation
    \/ Tick

SpecSimulator == InitSimulator /\ [][NextSimulator]_vars

\* one evaluation of the temperature factor
InitFactor ==
    /\ call \in TemperatureFactorRequests
    /\ InitBusIdle

NextFactor == Call_get_temperature_factor

SpecFactor == InitFactor /\ [][NextFactor]_vars

(***************************************************************************)
(* Fusion engine: properties                                               *)
(***************************************************************************)

\* the severity order SAFE < WARNING < SPOILED < CRITICAL
Rank(s) ==
    CASE s = "SAFE" -> 0
      [] s = "WARNING" -> 1
      [] s = "SPOILED" -> 2
      [] s = "CRITICAL" -> 3

MoreSevere(a, b) == IF Rank(a) >= Rank(b) THEN a ELSE b

DoneCall(f) == call.fn = f /\ call.done

\* the two gases get_fusion_decision inspects, as the caller supplied them
H2SOf(g) == Get(g, "h2s_ppm", 0)
MethaneOf(g) == Get(g, "methane_ppm", 0)

GasCriticalIn(g) == H2SOf(g) >= H2S_CRITICAL \/ MethaneOf(g) >= METHANE_CRITICAL
GasLowIn(g) == H2SOf(g) < H2S_WARNING /\ MethaneOf(g) < METHANE_WARNING

\* C1: get_fusion_decision returns CRITICAL whenever the visual verdict is
\* Rotten or one of the gases it inspects is at or above its critical
\* threshold, whatever the other input is.
C1_CriticalWhenRottenOrGasCritical ==
    /\ DoneCall("get_fusion_decision") =>
          ((call.visual_result = "Rotten" \/ GasCriticalIn(call.gas_readings))
              => call.ret = "CRITICAL")
    /\ DoneCall("fusion_analysis") =>
          ((call.visual_status = "Rotten"
               \/ GasCriticalIn(GasReadingsOf(call.current)))
              => call.fusion_primary = "CRITICAL")

\* a Fresh verdict with H2S exactly at the critical threshold was fused
C1_Witness ==
    /\ DoneCall("get_fusion_decision")
    /\ call.visual_result = "Fresh"
    /\ H2SOf(call.gas_readings) = H2S_CRITICAL
    /\ MethaneOf(call.gas_readings) = 0
    /\ call.ret = "CRITICAL"

\* C2: get_fusion_decision returns SAFE if and only if the visual verdict is
\* Fresh and both gases it inspects are below their warning thresholds.
C2_SafeIffFreshAndGasLow ==
    /\ DoneCall("get_fusion_decision") =>
          (call.ret = "SAFE" <=>
              (call.visual_result = "Fresh" /\ GasLowIn(call.gas_readings)))
    /\ DoneCall("fusion_analysis") =>
          (call.fusion_primary = "SAFE" <=>
              (call.visual_status = "Fresh"
                  /\ GasLowIn(GasReadingsOf(call.current))))

\* a Fresh verdict with low H2S but methane at its warning threshold was
\* fused, and the result is not SAFE
C2_Witness ==
    /\ DoneCall("get_fusion_decision")
    /\ call.visual_result = "Fresh"
    /\ H2SOf(call.gas_readings) < H2S_WARNING
    /\ MethaneOf(call.gas_readings) = METHANE_WARNING
    /\ call.ret # "SAFE"

\* C3: when neither the CRITICAL condition (Rotten or gas critical) nor the
\* SAFE condition (Fresh and gas low) holds, the result is WARNING.
C3_WarningOtherwise ==
    /\ DoneCall("get_fusion_decision") =>
          ((/\ ~(call.visual_result = "Rotten" \/ GasCriticalIn(call.gas_readings))
            /\ ~(call.visual_result = "Fresh" /\ GasLowIn(call.gas_readings)))
              => call.ret = "WARNING")
    /\ DoneCall("fusion_analysis") =>
          ((/\ ~(call.visual_status = "Rotten"
                    \/ GasCriticalIn(GasReadingsOf(call.current)))
            /\ ~(call.visual_status = "Fresh"
                    /\ GasLowIn(GasReadingsOf(call.current))))
              => call.fusion_primary = "WARNING")

\* a missing verdict with low gas was fused to WARNING
C3_Witness ==
    /\ DoneCall("get_fusion_decision")
    /\ call.visual_result = "None"
    /\ GasLowIn(call.gas_readings)
    /\ call.ret = "WARNING"

\* C4: when the device label is taken into account, the final verdict is the
\* more severe of the fused verdict and the mapped label, and is never less
\* severe than either.
C4_ReconcileTakesMoreSevere ==
    (DoneCall("fusion_analysis") /\ UsesDeviceLabel(call.data_mode, call.current))
        => LET mapped == map_quality_level(call.current.quality_level)
           IN  /\ call.fusion_status = MoreSevere(call.fusion_primary, mapped)
               /\ Rank(call.fusion_status) >= Rank(call.fusion_primary)
               /\ Rank(call.fusion_status) >= Rank(mapped)

\* a fused CRITICAL met a device label that maps to SAFE and stayed CRITICAL
C4_Witness ==
    /\ DoneCall("fusion_analysis")
    /\ UsesDeviceLabel(call.data_mode, call.current)
    /\ call.fusion_primary = "CRITICAL"
    /\ call.current.quality_level = "GOOD"
    /\ call.fusion_status = "CRITICAL"

\* C5: determine_gas_status returns CRITICAL exactly when some gas is at or
\* above its critical boundary, LOW exactly when all three gases are below
\* their fresh boundary, and HIGH otherwise.
C5_GasStatusByFreshBoundary ==
    DoneCall("determine_gas_status") =>
        call.ret =
            IF \/ call.h2s >= H2S_CRITICAL_THRESHOLD
               \/ call.nh3 >= NH3_CRITICAL_THRESHOLD
               \/ call.co2 >= CO2_CRITICAL_THRESHOLD
            THEN "CRITICAL"
            ELSE IF /\ call.h2s < H2S_FRESH_THRESHOLD
                    /\ call.nh3 < NH3_FRESH_THRESHOLD
                    /\ call.co2 < CO2_FRESH_THRESHOLD
            THEN "LOW"
            ELSE "HIGH"

\* the severity the claim pairs with each gas status
SeverityOfGasStatus(gs) ==
    CASE gs = "LOW" -> "SAFE"
      [] gs = "HIGH" -> "WARNING"
      [] gs = "CRITICAL" -> "CRITICAL"

\* C6: for a reading fused with visual verdict Fresh, the gas status and the
\* fused severity agree: LOW with SAFE, HIGH with WARNING, CRITICAL with
\* CRITICAL.
C6_GasStatusAgreesWithFusion ==
    (DoneCall("fusion_analysis") /\ call.visual_status = "Fresh")
        => call.fusion_primary = SeverityOfGasStatus(call.gas_status)

\* C7: map_quality_level maps EXCELLENT and GOOD to SAFE, FAIR and POOR to
\* WARNING, SPOILED to SPOILED and every other label to WARNING; it never
\* returns CRITICAL.
C7_QualityLevelTable ==
    DoneCall("map_quality_level") =>
        /\ call.esp_quality \in {"EXCELLENT", "GOOD"} => call.ret = "SAFE"
        /\ call.esp_quality \in {"FAIR", "POOR"} => call.ret = "WARNING"
        /\ call.esp_quality = "SPOILED" => call.ret = "SPOILED"
        /\ call.esp_quality \notin {"EXCELLENT", "GOOD", "FAIR", "POOR", "SPOILED"}
              => call.ret = "WARNING"
        /\ call.ret # "CRITICAL"

\* the empty label was mapped, to WARNING
C7_Witness ==
    /\ DoneCall("map_quality_level")
    /\ call.esp_quality = ""
    /\ call.ret = "WARNING"

(***************************************************************************)
(* Bus client: properties                                                  *)
(***************************************************************************)

\* this step is one run of the message callback
Handled == nmsgs' = nmsgs + 1

Parseable(p) == p.utf8 /\ p.json

\* the groups of a parsed object, when present, are objects; the sensor
\* fields, when present, are numbers; the level, when present, is a string
ShapedTelemetry(p) ==
    /\ Parseable(p)
    /\ IsDict(p.value)
    /\ IsDict(DictGet(p.value, "sensors", EmptyObj))
    /\ IsDict(DictGet(p.value, "quality", EmptyObj))
    /\ \A k \in DOMAIN DictGet(p.value, "sensors", EmptyObj).m :
          IsNumber(DictGet(p.value, "sensors", EmptyObj).m[k])
    /\ DictGet(DictGet(p.value, "quality", EmptyObj), "level", Str("x")).t = "string"

HasField(p, k) == k \in DOMAIN DictGet(p.value, "sensors", EmptyObj).m
HasLevel(p) == "level" \in DOMAIN DictGet(p.value, "quality", EmptyObj).m

\* all five sensor fields are there (the quality level may be absent)
WellFormed(p) == ShapedTelemetry(p) /\ \A k \in SensorKeys : HasField(p, k)

\* a sensor field or the quality level is not there
LacksFields(p) ==
    ShapedTelemetry(p) /\ ((\E k \in SensorKeys : ~HasField(p, k)) \/ ~HasLevel(p))

\* what the reading is to carry for field k and for the quality level
FieldOrZero(p, k) ==
    IF HasField(p, k) THEN DictGet(p.value, "sensors", EmptyObj).m[k].n ELSE 0
LevelOrUnknown(p) ==
    IF HasLevel(p) THEN DictGet(p.value, "quality", EmptyObj).m["level"].s
    ELSE "UNKNOWN"

\* the step appended exactly one row, which carries payload p
PersistedOne(p) ==
    /\ Len(sensor_readings') = Len(sensor_readings) + 1
    /\ SubSeq(sensor_readings', 1, Len(sensor_readings)) = sensor_readings
    /\ LET row == sensor_readings'[Len(sensor_readings')]
       IN  /\ row.device_id = "ESP32-Sensor"
           /\ row.mq136_h2s = FieldOrZero(p, "mq136_h2s")
           /\ row.mq137_nh3 = FieldOrZero(p, "mq137_nh3")
           /\ row.mq135_co2 = FieldOrZero(p, "mq135_co2")
           /\ row.temperature = FieldOrZero(p, "temperature")
           /\ row.humidity = FieldOrZero(p, "humidity")
           /\ row.quality_level = LevelOrUnknown(p)

\* C8: in each of the three clients, a well-formed telemetry payload handled
\* while the store accepts writes adds exactly one row carrying the payload's
\* values, its quality level (UNKNOWN when absent) and device id ESP32-Sensor.
C8_EveryClientPersistsTelemetry ==
    [][(Handled /\ last'.topic = MQTT_TOPIC /\ WellFormed(last'.payload) /\ db_ok)
          => PersistedOne(last'.payload)]_vars

\* C9: a telemetry message whose payload does not parse adds no row, lets no
\* exception out of the callback and leaves the connection state as it was.
C9_UnparseableIsDropped ==
    [][(Handled /\ last'.topic = MQTT_TOPIC /\ ~Parseable(last'.payload))
          => /\ sensor_readings' = sensor_readings
             /\ seq_sensor' = seq_sensor
             /\ escaped' = FALSE
             /\ connected' = connected]_vars

\* text that is not JSON arrived after one reading had been stored, and the
\* table still holds that one reading
C9_Witness ==
    /\ nmsgs = 2
    /\ impl = "SimpleMQTTClient"
    /\ last.topic = MQTT_TOPIC
    /\ last.payload.utf8 /\ ~last.payload.json
    /\ Len(sensor_readings) = 1
    /\ connected
    /\ ~escaped

\* C10: in the clients that define _process_sensor_data, a telemetry payload
\* that parses but lacks sensor fields, the sensors group, the quality group
\* or the level adds exactly one row while the store accepts writes; a
\* missing field is 0 in that row and a missing level is UNKNOWN.
C10_MissingFieldsDefault ==
    [][(/\ Handled
        /\ DefinesProcessSensorData(impl)
        /\ last'.topic = MQTT_TOPIC
        /\ LacksFields(last'.payload)
        /\ db_ok)
          => PersistedOne(last'.payload)]_vars

\* the empty object arrived and one row of zeros with level UNKNOWN is stored
C10_Witness ==
    /\ nmsgs = 1
    /\ impl = "MQTTSubscriber"
    /\ last.topic = MQTT_TOPIC
    /\ last.payload = Text(EmptyObj)
    /\ Len(sensor_readings) = 1
    /\ sensor_readings[1].mq136_h2s = 0
    /\ sensor_readings[1].temperature = 0
    /\ sensor_readings[1].quality_level = "UNKNOWN"

\* C11: a message on the status topic or on the last-will topic leaves the
\* contents of sensor_readings, visual_predictions and fusion_decisions as
\* they were, whatever its payload and whichever client handles it.
C11_StatusAndLwtLeaveStore ==
    [][(Handled /\ last'.topic \in {MQTT_STATUS_TOPIC, MQTT_LWT_TOPIC})
          => /\ sensor_readings' = sensor_readings
             /\ visual_predictions' = visual_predictions
             /\ fusion_decisions' = fusion_decisions]_vars

\* a last-will message that carries a full telemetry document arrived after
\* one reading had been stored; the three tables hold one row each
C11_Witness ==
    /\ nmsgs = 2
    /\ last.topic = MQTT_LWT_TOPIC
    /\ WellFormed(last.payload)
    /\ db_ok
    /\ Len(sensor_readings) = 1
    /\ Len(visual_predictions) = 1
    /\ Len(fusion_decisions) = 1

\* this step is a message callback whose insert raised
InsertFailed == Len(insert_errors') = Len(insert_errors) + 1

\* C18: when the insert raises while a telemetry message is processed, no
\* exception leaves the callback, the connection state and the table stay
\* as they were, and a well-formed telemetry message handled later, once the
\* store accepts writes again, adds its row.
C18_StoreFailureIsContained ==
    [][Handled =>
         /\ InsertFailed =>
               /\ escaped' = FALSE
               /\ connected' = connected
               /\ sensor_readings' = sensor_readings
         /\ (/\ insert_errors # <<>>
             /\ last'.topic = MQTT_TOPIC
             /\ WellFormed(last'.payload)
             /\ db_ok) => PersistedOne(last'.payload)]_vars

\* the insert of the first message raised on a store that refused writes;
\* the store recovered and the second message was persisted
C18_Witness ==
    /\ insert_errors = <<1>>
    /\ nmsgs = 2
    /\ last.topic = MQTT_TOPIC
    /\ WellFormed(last.payload)
    /\ db_ok
    /\ Len(sensor_readings) = 1
    /\ connected
    /\ ~escaped

(***************************************************************************)
(* connect() and poll(): properties                                        *)
(***************************************************************************)

\* this step is a call of the named method
Called(op) == calls' = calls + 1 /\ ret'.op = op

\* C14: connect() lets no exception out and returns a boolean; it returns
\* true only when its handshake succeeded (or the transport was connected
\* already), and after it returned false the client does not report itself
\* connected.
C14_ConnectReportsOutcome ==
    [][Called("connect") =>
         /\ ~ret'.raised
         /\ ret'.value \in BOOLEAN
         /\ ret'.value => (HandshakeOk(ret'.outcome) \/ link = "up")
         /\ ~ret'.value => ~connected']_vars

\* C17: poll() lets no exception out; it calls connect() once when the
\* transport reports disconnected and not at all when it reports connected;
\* it makes no second handshake; and the boolean it returns is the value of
\* is_connected() when it returns.
C17_PollSyncsAndConnectsOnce ==
    [][Called("poll") =>
         /\ ~ret'.raised
         /\ ret'.value \in BOOLEAN
         /\ ret'.connects = (IF link = "up" THEN 0 ELSE 1)
         /\ ret'.handshakes = ret'.connects
         /\ ret'.value = connected']_vars

\* poll() found the transport down, its one handshake failed, and it
\* returned false with the client reporting itself disconnected
C17_Witness ==
    /\ ret.op = "poll"
    /\ ret.outcome = "exception"
    /\ ret.connects = 1
    /\ ret.value = FALSE
    /\ ~connected
    /\ calls = 3

(***************************************************************************)
(* MQTTClient lifecycle: properties                                        *)
(***************************************************************************)

Range(f) == {f[x] : x \in DOMAIN f}

\* the background loops that have not ended
LiveLoops == {t \in DOMAIN threads : threads[t].pc # "done"}

\* this step is a connect() call made by background thread t
AttemptStep(t) == threads[t].pc = "connect" /\ threads'[t].pc # "connect"
Attempt == \E t \in DOMAIN threads : AttemptStep(t)

\* C12: as long as stop() has not been called, at most one background loop
\* exists, and a start() call that follows another start() makes no thread
\* and no connection attempt: it leaves the threads, the connection and the
\* flags as they were.
C12_StartIsIdempotent ==
    [][/\ "stop" \notin Range(ops') => Cardinality(LiveLoops') <= 1
       /\ (/\ ops' = Append(ops, "start")
           /\ "start" \in Range(ops)
           /\ "stop" \notin Range(ops))
             => /\ threads' = threads
                /\ ~Attempt
                /\ UNCHANGED <<connected, link, loop_running, loop_started,
                               keep_running, started>>]_vars

\* start() was called three times and one loop runs, in the middle of its
\* connect() call
C12_Witness ==
    /\ ops = <<"start", "start", "start">>
    /\ Len(threads) = 1
    /\ threads[1].pc = "connect"

\* stop() was the last lifecycle call made
Stopped == ops # <<>> /\ ops[Len(ops)] = "stop"

\* C13: once stop() has returned (and start() has not been called again),
\* whatever the background thread was doing, no connection attempt is made,
\* the network loop is not started, no reading is persisted and the client
\* does not become connected.
C13_StopHaltsLoop ==
    [][(Stopped /\ ops' = ops)
          => /\ ~Attempt
             /\ ~(loop_running' /\ ~loop_running)
             /\ sensor_readings' = sensor_readings
             /\ ~(connected' /\ ~connected)]_vars

\* start() has been called and neither stop() nor disconnect() has
LoopShouldRun == keep_running /\ threads # <<>>

Attempting == \E t \in DOMAIN threads : threads[t].pc = "connect"

\* C15: while the client is started and has not been stopped, a client that
\* is disconnected and not in a connection attempt comes to make one; and
\* when handshakes that stay possible do succeed, a disconnected client
\* comes to be connected.
C15_LoopKeepsReconnecting ==
    /\ (LoopShouldRun /\ ~connected /\ ~Attempting)
          ~> (Attempting \/ connected \/ ~keep_running)
    /\ (LoopShouldRun /\ ~connected) ~> (connected \/ ~keep_running)

\* a message had been received, the connection was lost, and the loop has
\* made a new handshake that the broker is about to acknowledge
C15_Witness ==
    /\ LoopShouldRun
    /\ nmsgs = 1
    /\ link = "sent"
    /\ connected
    /\ threads[1].since = "attempt"

\* C16: a background loop of a client that has not been stopped makes no
\* connection attempt right after another without having waited the
\* reconnect delay in between, and the delay is waited only while the
\* client is disconnected.
C16_DelayBetweenAttempts ==
    [][\A t \in DOMAIN threads :
          /\ (keep_running /\ AttemptStep(t)) => threads[t].since # "attempt"
          /\ threads[t].pc = "delay" => ~connected]_vars

(***************************************************************************)
(* MQTTSubscriber.run(): properties                                        *)
(***************************************************************************)

\* C19: a transport error does not end the subscriber process: run() never
\* leaves through sys.exit(1) because a connect() failed (the part of the
\* claim that a finite run decides; the further connection attempt it also
\* promises presupposes a process that is still running).
C19_TransportErrorIsSurvived ==
    \A t \in DOMAIN threads : threads[t].pc # "exit1"

(***************************************************************************)
(* DatabaseManager: properties                                             *)
(***************************************************************************)

\* this step is the commit of an insert into table t
InsertCommitted(t) ==
    \E w \in Writers :
       /\ txn[w] # NoTxn
       /\ txn[w].op = "insert"
       /\ txn[w].table = t
       /\ txn'[w] = NoTxn

DistinctIds(rows) ==
    \A i, j \in DOMAIN rows : i # j => rows[i].id # rows[j].id

\* C20: in each table, whatever the interleaving of the writers' inserts,
\* cleanups and purges, a committed insert returns an identifier greater
\* than every identifier returned for that table before (those of rows
\* deleted since included), the row it adds carries that identifier, and no
\* two rows of the table share an identifier.
C20_IdentifiersIncrease ==
    [][\A t \in Tables :
          /\ InsertCommitted(t) =>
                /\ \A i \in assigned[t] : ret'.value > i
                /\ LET rows == TheStore[t].rows'
                   IN  rows # <<>> /\ rows[Len(rows)].id = ret'.value
          /\ DistinctIds(TheStore[t].rows')]_vars

\* a reading was inserted and deleted, and the reading inserted afterwards
\* by the subscriber got identifier 2
C20_Witness ==
    /\ assigned["sensor_readings"] = {1, 2}
    /\ Len(sensor_readings) = 1
    /\ sensor_readings[1].id = 2
    /\ ret.op = "insert"
    /\ ret.writer = "subscriber"
    /\ ret.value = 2

\* the reading lacks a required field or has None in one
Defective(data) ==
    \E c \in RequiredColumns : c \notin DOMAIN data \/ IsNone(data[c])

\* this step is a call of op that returned
Returns(op) == ret'.op = op /\ (ret.op = op => ret' # ret)

\* C21: an insert of a sensor reading that lacks one of device_id,
\* temperature, humidity, mq135_co2, mq136_h2s, mq137_nh3, quality_level, or
\* has None in one of them, raises to the caller, and when it has returned
\* the rows and the AUTOINCREMENT counters of all three tables are what they
\* were and no transaction is open: nothing was written in a second attempt.
C21_DefectiveInsertRaises ==
    [][Returns("insert_sensor_reading") /\ Defective(ret'.arg) =>
          /\ ret'.raised
          /\ TheStore' = TheStore
          /\ UNCHANGED txnVars]_vars

\* a reading without humidity was refused while the table held a row
C21_Witness ==
    /\ ret.op = "insert_sensor_reading"
    /\ ret.raised
    /\ "humidity" \notin DOMAIN ret.arg
    /\ db_ok
    /\ Len(sensor_readings) = 1

\* the stored readings that are not in the list out
LeftOut(out) == Range(sensor_readings) \ Range(out)

\* C22: called with limit on a readable store of M readings,
\* get_recent_readings returns min(limit, M) different stored readings, no
\* reading left out has a greater timestamp than a returned one, and the
\* list is in non-increasing timestamp order; so recent(N) after N inserts
\* into an empty store returns those N.
C22_RecentReturnsNewest ==
    [][Returns("get_recent_readings") /\ db_ok =>
          LET out == ret'.value
              limit == ret'.arg
              M == Len(sensor_readings)
          IN  /\ Len(out) = IF limit < M THEN limit ELSE M
              /\ Range(out) \subseteq Range(sensor_readings)
              /\ Cardinality(Range(out)) = Len(out)
              /\ \A r \in LeftOut(out) : \A i \in DOMAIN out :
                    r.timestamp <= out[i].timestamp
              /\ \A i, j \in DOMAIN out :
                    i < j => out[i].timestamp >= out[j].timestamp
              /\ limit = M => Range(out) = Range(sensor_readings)]_vars

\* of two readings, the older was inserted last; recent(1) returned the
\* newer one, which is the first row of the table
C22_Witness ==
    /\ ret.op = "get_recent_readings"
    /\ ret.arg = 1
    /\ Len(sensor_readings) = 2
    /\ sensor_readings[1].timestamp > sensor_readings[2].timestamp
    /\ ret.value = <<sensor_readings[1]>>

\* C23: among readings with one timestamp, get_recent_readings returns the
\* one inserted earlier (smaller identifier) before the one inserted later,
\* and a reading left out by the limit was inserted after every returned
\* reading of its timestamp.
C23_TiesByInsertionOrder ==
    [][Returns("get_recent_readings") /\ db_ok =>
          LET out == ret'.value
          IN  /\ \A i, j \in DOMAIN out :
                    i < j /\ out[i].timestamp = out[j].timestamp =>
                       out[i].id < out[j].id
              /\ \A r \in LeftOut(out) : \A i \in DOMAIN out :
                    r.timestamp = out[i].timestamp => out[i].id < r.id]_vars

\* C24: on a readable store get_readings_in_range(start, end) returns
\* exactly the stored readings with start <= timestamp <= end, each once,
\* in non-decreasing timestamp order.
C24_RangeIsInclusive ==
    [][Returns("get_readings_in_range") /\ db_ok =>
          LET out == ret'.value
              start_time == ret'.arg[1]
              end_time == ret'.arg[2]
          IN  /\ Range(out) =
                   {r \in Range(sensor_readings) :
                       start_time <= r.timestamp /\ r.timestamp <= end_time}
              /\ Cardinality(Range(out)) = Len(out)
              /\ \A i, j \in DOMAIN out :
                    i < j => out[i].timestamp <= out[j].timestamp]_vars

\* range(0, 1) returned a reading stamped 0 and one stamped 1, both on the
\* bounds, in the reverse of the order they were inserted in
C24_Witness ==
    /\ ret.op = "get_readings_in_range"
    /\ ret.arg = <<0, 1>>
    /\ Len(sensor_readings) = 2
    /\ sensor_readings[1].timestamp = 1
    /\ sensor_readings[2].timestamp = 0
    /\ ret.value = <<sensor_readings[2], sensor_readings[1]>>

\* C25: on a readable store get_latest_reading returns None exactly when
\* sensor_readings has no row, and otherwise a stored reading that no
\* stored reading is newer than, whatever inserts, cleanups and purges
\* came before.
C25_LatestIsNewestOrNone ==
    [][Returns("get_latest_reading") /\ db_ok =>
          /\ ret'.value = None <=> sensor_readings = <<>>
          /\ ret'.value # None =>
                /\ ret'.value \in Range(sensor_readings)
                /\ \A r \in Range(sensor_readings) :
                      r.timestamp <= ret'.value.timestamp]_vars

\* two readings were inserted, the first has been deleted since, and the
\* latest reading is the one that is left
C25_Witness ==
    /\ ret.op = "get_latest_reading"
    /\ seq_sensor = 2
    /\ Len(sensor_readings) = 1
    /\ sensor_readings[1].id = 2
    /\ ret.value = sensor_readings[1]
    /\ now = MaxTick

\* the stored readings inside the window of get_statistics(hours) now
Window(hours) ==
    SelectSeq(sensor_readings,
              LAMBDA r : r.timestamp >=
                            LocalNow - ((hours * TicksPerDay) \div HoursPerDay))

\* C26: on a readable store, get_statistics over a window no stored
\* reading falls in returns a dict whose count is 0 and whose
\* quality_distribution is empty, and raises nothing.
C26_EmptyWindowIsZeroCount ==
    [][Returns("get_statistics") /\ db_ok /\ Window(ret'.arg) = <<>> =>
          /\ ~ret'.raised
          /\ "count" \in DOMAIN ret'.value
          /\ ret'.value.count = 0
          /\ DOMAIN ret'.value.quality_distribution = {}]_vars

\* the table holds a reading, it is older than the window asked for, and
\* the statistics count nothing
C26_Witness ==
    /\ ret.op = "get_statistics"
    /\ ret.arg = 12
    /\ sensor_readings # <<>>
    /\ Window(12) = <<>>
    /\ db_ok
    /\ ret.value.count = 0

\* the value of column c at the rows of w
ValuesOf(w, c) == {w[i][c] : i \in DOMAIN w}

\* x, a number of hundredths, is sum / n rounded to two places
IsAverage(x, w, c) ==
    /\ x # None
    /\ 2 * Len(w) * x.n - Len(w) <= 200 * SumSeq(Column(w, c))
    /\ 200 * SumSeq(Column(w, c)) < 2 * Len(w) * x.n + Len(w)

IsMinimum(x, w, c) ==
    /\ x # None
    /\ \E v \in ValuesOf(w, c) : x.n = 100 * v
    /\ \A v \in ValuesOf(w, c) : x.n <= 100 * v

IsMaximum(x, w, c) ==
    /\ x # None
    /\ \E v \in ValuesOf(w, c) : x.n = 100 * v
    /\ \A v \in ValuesOf(w, c) : x.n >= 100 * v

\* C27: on a readable store, get_statistics over a window holding at least
\* one reading reports the number of readings in the window as count, a
\* quality_distribution whose counts add up to count, and as every average,
\* minimum and maximum it reports the aggregate of that column over the
\* window (to two decimal places), also when the aggregate is 0.
C27_StatisticsAreTrueAggregates ==
    [][Returns("get_statistics") /\ db_ok /\ Window(ret'.arg) # <<>> =>
          LET st == ret'.value
              w == Window(ret'.arg)
              dist == st.quality_distribution
          IN  /\ st.count = Len(w)
              /\ \A q \in DOMAIN dist :
                    dist[q] = Cardinality({i \in DOMAIN w : w[i].quality_level = q})
              /\ {w[i].quality_level : i \in DOMAIN w} = DOMAIN dist
              /\ IsAverage(st.avg_temp, w, "temperature")
              /\ IsAverage(st.avg_humidity, w, "humidity")
              /\ IsAverage(st.avg_co2, w, "mq135_co2")
              /\ IsAverage(st.avg_h2s, w, "mq136_h2s")
              /\ IsAverage(st.avg_nh3, w, "mq137_nh3")
              /\ IsMinimum(st.min_temp, w, "temperature")
              /\ IsMaximum(st.max_temp, w, "temperature")
              /\ IsMinimum(st.min_h2s, w, "mq136_h2s")
              /\ IsMaximum(st.max_h2s, w, "mq136_h2s")
              /\ IsMinimum(st.min_nh3, w, "mq137_nh3")
              /\ IsMaximum(st.max_nh3, w, "mq137_nh3")]_vars

\* this step is the commit of the transaction op of some process
Commits(op) ==
    \E w \in Writers :
       /\ txn[w] # NoTxn
       /\ txn[w].op = op
       /\ txn'[w] = NoTxn

\* this step is the return of a call of cleanup_old_data
CleanupReturns ==
    /\ ret'.op = "cleanup"
    /\ ret.op = "cleanup" => ret' # ret

\* C28: a call of cleanup_old_data with a retention of 0 or less returns
\* without raising and leaves the rows (so the row counts) of all three
\* tables, their counters, the write lock and the open transactions as they
\* were, also while another process is writing.
C28_NonPositiveRetentionIsNoOp ==
    [][CleanupReturns /\ ret'.arg <= 0 =>
          /\ ~ret'.raised
          /\ TheStore' = TheStore
          /\ UNCHANGED txnVars]_vars

\* cleanup_old_data(0) has returned while the other process had an insert
\* open, with a reading from time 0 in the table long after
C28_Witness ==
    /\ ret.op = "cleanup"
    /\ ret.arg = 0
    /\ ret.writer = "dashboard"
    /\ lock = "subscriber"
    /\ now = MaxTick
    /\ Len(sensor_readings) = 1
    /\ sensor_readings[1].timestamp = 0

\* the point in time (as UTC time) a row of table t is stamped with: the
\* sensor readings carry the host's local time, the other two tables
\* CURRENT_TIMESTAMP
Instant(t, r) ==
    IF t = "sensor_readings" THEN r.timestamp - tz ELSE r.timestamp

\* C29: when a cleanup with a positive retention commits, each of the
\* three tables holds exactly its rows that are not older than the cutoff,
\* the time of the call minus the retention, unchanged and in their order;
\* the rows stamped before the cutoff are gone.
C29_CleanupDeletesOlderThanCutoff ==
    [][\A w \in Writers :
          txn[w] # NoTxn /\ txn[w].op = "cleanup" /\ txn'[w] = NoTxn =>
             LET cutoff == txn[w].cutoff_date - tz
             IN  \A t \in Tables :
                    TheStore'[t].rows =
                       SelectSeq(TheStore[t].rows,
                                 LAMBDA r : ~(Instant(t, r) < cutoff))]_vars

\* C30: when delete_all_data commits, the three tables are empty and the
\* count returned for each table is the number of rows it held.
C30_PurgeEmptiesAndCounts ==
    [][Commits("purge") =>
          \A t \in Tables :
             /\ TheStore'[t].rows = <<>>
             /\ ret'.value[t] = Len(TheStore[t].rows)]_vars

\* a purge has deleted one reading and one prediction and reported 1, 1, 0
C30_Witness ==
    /\ ret.op = "purge"
    /\ ~ret.raised
    /\ ret.value["sensor_readings"] = 1
    /\ ret.value["visual_predictions"] = 1
    /\ ret.value["fusion_decisions"] = 0
    /\ \A t \in Tables : TheStore[t].rows = <<>>

\* C31: a cleanup that ran with a positive retention while the store could
\* not be used does not return to its caller as a cleanup that succeeded
\* does: it raises, or it returns a value other than None.
C31_FailedCleanupIsSurfaced ==
    [][Returns("cleanup_old_data") /\ ~db_ok
          /\ ~RetentionDisabled(ret'.arg) =>
          ret'.raised \/ ret'.value # None]_vars

(***************************************************************************)
(* Fusion engine: the verdict SPOILED and the device label                 *)
(***************************************************************************)

C36_WitnessLabel ==
    /\ DoneCall("fusion_analysis")
    /\ call.fusion_primary = "WARNING"
    /\ call.data_mode = "mqtt"
    /\ call.current.quality_level = "SPOILED"
    /\ call.fusion_status = "SPOILED"

\* C37: when the device label of the latest reading is UNKNOWN, or the
\* readings come from the simulator, the final verdict is the fused verdict.
C37_NoLabelNoReconciliation ==
    (/\ DoneCall("fusion_analysis")
     /\ call.current.quality_level = "UNKNOWN" \/ call.data_mode = "mock")
        => call.fusion_status = call.fusion_primary

\* a reading from the bus with the label UNKNOWN was fused to SAFE and the
\* final verdict is SAFE
C37_Witness ==
    /\ DoneCall("fusion_analysis")
    /\ call.data_mode = "mqtt"
    /\ call.current.quality_level = "UNKNOWN"
    /\ call.fusion_primary = "SAFE"
    /\ call.fusion_status = "SAFE"

\* a reading of the simulator that carries the label SPOILED was fused to
\* SAFE and the final verdict is SAFE
C37_WitnessSimulator ==
    /\ DoneCall("fusion_analysis")
    /\ call.data_mode = "mock"
    /\ call.current.quality_level = "SPOILED"
    /\ call.fusion_primary = "SAFE"
    /\ call.fusion_status = "SAFE"

(***************************************************************************)
(* DatabaseManager.insert_sensor_reading: the stored timestamp             *)
(***************************************************************************)

\* the wall-clock time of the host that the supplied timestamp names
SuppliedTime(ts) ==
    CASE ts.t = "datetime" -> ts.d
      [] ts.t = "string" -> CHOOSE d \in Ticks : IsoFormat(d) = ts.s
      [] ts.t = "number" -> ((ts.n * TicksPerDay) \div MsPerDay) + tz

\* C38: the row stored for an inserted reading carries the time the caller
\* supplied in the timestamp field, whether the field is an ISO text, epoch
\* milliseconds or a datetime object.
C38_StoredTimestampIsSupplied ==
    (DoneCall("insert_sensor_reading") /\ sensor_readings # <<>>) =>
        sensor_readings[1].timestamp = SuppliedTime(call.data["timestamp"])

(***************************************************************************)
(* MQTTClient lifecycle: start() after stop() or disconnect()              *)
(***************************************************************************)

\* the lifecycle call made last
LastOp == IF ops = <<>> THEN "none" ELSE ops[Len(ops)]

\* C39: a start() that follows stop() or disconnect() makes a background
\* loop, and while start() is the last lifecycle call made, the loop made
\* last does not end: it runs as the loop of the first start() does.
C39_StartAfterStopRunsLoop ==
    [][/\ (ops' = Append(ops, "start") /\ LastOp \in {"stop", "disconnect"})
             => Len(threads') = Len(threads) + 1
       /\ \A t \in DOMAIN threads :
             (t = Len(threads) /\ LastOp = "start" /\ threads[t].pc # "done")
                => threads'[t].pc # "done"]_vars

(***************************************************************************)
(* MeatDecaySimulator: properties                                          *)
(***************************************************************************)

\* C32: the temperature factor is 0.1 for every temperature at or below
\* 0 degrees, is at least 0.1 for every temperature, and over the
\* temperatures up to the reference temperature a lower temperature never
\* has a higher factor.
C32_TemperatureFactorFloorAndMonotone ==
    DoneCall("_get_temperature_factor") =>
        /\ call.temp_c <= 0 => call.ret = Scale \div 10
        /\ call.ret >= Scale \div 10
        /\ call.temp_c <= simulator.reference_temp =>
              \A lower \in MinTemp..call.temp_c :
                 _get_temperature_factor(simulator, lower) <= call.ret

\* the factor was evaluated at the freezing point itself and is 0.1
C32_Witness ==
    /\ DoneCall("_get_temperature_factor")
    /\ call.temp_c = 0
    /\ call.ret = Scale \div 10

\* value lies within percent hundredths of base around base
Within(value, base, percent) ==
    /\ value * 100 >= base * (100 - percent)
    /\ value * 100 <= base * (100 + percent)

\* C33: a reset leaves the elapsed time zero and the three current levels at
\* their base levels; and a read made at the instant of the reset returns
\* H2S within 8%, methane within 6% and ammonia within 5% of the base level
\* (H2S: of 0.5), whatever was read and however long the simulator ran
\* before the reset.
C33_ResetReturnsToBase ==
    [][/\ ResetSimulation =>
             /\ simulator'.time_elapsed = 0
             /\ simulator'.current_h2s = simulator'.base_h2s
             /\ simulator'.current_methane = simulator'.base_methane
             /\ simulator'.current_ammonia = simulator'.base_ammonia
       /\ (/\ ret.op = "reset_simulation"
           /\ ret'.op = "get_readings"
           /\ ret'.at = ret.at)
             => /\ simulator'.time_elapsed = 0
                /\ simulator'.base_h2s = Scale \div 2
                /\ Within(ret'.value.h2s_ppm, simulator'.base_h2s, 8)
                /\ Within(ret'.value.methane_ppm, simulator'.base_methane, 6)
                /\ Within(ret'.value.ammonia_ppm, simulator'.base_ammonia, 5)]_vars

\* the simulator was reset a day after it was made and read at once, warm:
\* the H2S returned is 0.54, the base level and 8% of it
C33_Witness ==
    /\ ret.op = "get_readings"
    /\ ret.at = 2 * SecondsPerTick
    /\ simulator.start_time = ret.at
    /\ ret.room_temp = 35
    /\ ret.value.h2s_ppm = 5400

\* C34: whatever reads and resets were made and whatever temperature and
\* humidity set points were handed over, every gas concentration a read
\* returns is at least zero and the humidity it returns lies in 0 .. 100.
C34_ReadingsAreInRange ==
    ret.op = "get_readings" =>
        /\ ret.value.h2s_ppm >= 0
        /\ ret.value.methane_ppm >= 0
        /\ ret.value.ammonia_ppm >= 0
        /\ ret.value.humidity >= 0
        /\ ret.value.humidity <= 100 * 10

\* after a reset, a read with the humidity set point 150 returned 100
C34_Witness ==
    /\ ret.op = "get_readings"
    /\ simulator.start_time > 0
    /\ ret.humidity = 150
    /\ ret.value.humidity = 100 * 10

\* the fields a read may change
ReadFields ==
    {"time_elapsed", "current_h2s", "current_methane", "current_ammonia",
     "current_temp", "current_humidity"}

\* C35: of two reads with no reset between them, the later one computes,
\* before the noise, a level of each gas that is not lower than the level
\* the earlier one computed, whatever the two temperatures were; and a
\* read leaves the start time, the base levels and the decay rates as they
\* were.
C35_LevelsNeverDecrease ==
    [][/\ (ret.op = "get_readings" /\ ret'.op = "get_readings")
             => /\ ret'.level.h2s >= ret.level.h2s
                /\ ret'.level.methane >= ret.level.methane
                /\ ret'.level.ammonia >= ret.level.ammonia
       /\ ret'.op = "get_readings" =>
             \A k \in DOMAIN simulator \ ReadFields :
                simulator'[k] = simulator[k]]_vars

====
